---- MODULE Spec2Model ----
(***************************************************************************)
(* A model of RAFT (src/src/raft.py): the add-step text engine that        *)
(* rewrites a project's main.nf, and the asset loader (load-reference /    *)
(* load-metadata) with the mount manifest it maintains.                    *)
(*                                                                         *)
(* Text is modelled as Python sees it, at the granularity of tokens: a     *)
(* string is a sequence of tokens, each token an indivisible run of        *)
(* characters ("params.", "foo", "(", "\n", ...).  A token that contains   *)
(* white space starts with it.  str.replace, str.partition, list.index,    *)
(* readlines and ''.join are computed on these sequences.                  *)
(***************************************************************************)
EXTENDS Naturals, Integers, Sequences, FiniteSets, TLC

(***************************************************************************)
(* Bounds of the model.                                                    *)
(***************************************************************************)
\* successful add-step calls after which no further add-step is started
MaxAdds == 2
\* cap on the length of final_steps in the discovery loop of add_step
MaxFinal == 5
\* successful load-reference / load-metadata calls that are followed
MaxLoads == 3
MaxCmds == 4
MaxModLoads == 2
MaxUpdates == 2
MaxRuns == 3
MaxSetups == 3

(***************************************************************************)
(* Python string and list primitives.                                      *)
(***************************************************************************)
NL == "\n"

\* str.startswith
StartsWith(s, p) == Len(p) <= Len(s) /\ SubSeq(s, 1, Len(p)) = p

\* list.index(x, start): the first position >= from (1-based) of x, 0 when
\* absent (where Python raises ValueError)
RECURSIVE IndexFrom(_, _, _)
IndexFrom(list, x, from) ==
  IF from < 1 \/ from > Len(list) THEN 0
  ELSE IF list[from] = x THEN from
  ELSE IndexFrom(list, x, from + 1)

\* list.index(x) / str.find
IndexOf(list, x) == IndexFrom(list, x, 1)

\* x in list
In(x, list) == \E i \in 1..Len(list) : list[i] = x

\* list.insert(idx, x) with Python's 0-based idx (0 <= idx <= len)
Insert(list, idx, x) == SubSeq(list, 1, idx) \o <<x>> \o SubSeq(list, idx + 1, Len(list))

\* list.remove(x): drops the first occurrence
Remove(list, x) ==
  LET i == IndexOf(list, x)
  IN IF i = 0 THEN list ELSE SubSeq(list, 1, i - 1) \o SubSeq(list, i + 1, Len(list))

\* ''.join(list)
RECURSIVE Concat(_)
Concat(list) == IF list = <<>> THEN <<>> ELSE Head(list) \o Concat(Tail(list))

\* sep.join(list)
RECURSIVE Join(_, _)
Join(sep, list) ==
  IF list = <<>> THEN <<>>
  ELSE IF Len(list) = 1 THEN list[1]
  ELSE list[1] \o sep \o Join(sep, Tail(list))

\* str.replace(old, new): left to right, non-overlapping; old is not empty
RECURSIVE Replace(_, _, _)
Replace(s, old, new) ==
  IF s = <<>> THEN <<>>
  ELSE IF StartsWith(s, old) THEN new \o Replace(SubSeq(s, Len(old) + 1, Len(s)), old, new)
  ELSE <<Head(s)>> \o Replace(Tail(s), old, new)

\* file.readlines(): the content cut after every newline
RECURSIVE ReadLines(_)
ReadLines(content) ==
  IF content = <<>> THEN <<>>
  ELSE LET i == IndexOf(content, NL)
       IN IF i = 0 THEN <<content>>
          ELSE <<SubSeq(content, 1, i)>> \o ReadLines(SubSeq(content, i + 1, Len(content)))

\* str.partition(sep)[0] and [2] for a one-token separator
PartitionHead(s, sep) ==
  LET i == IndexOf(s, sep) IN IF i = 0 THEN s ELSE SubSeq(s, 1, i - 1)
PartitionTail(s, sep) ==
  LET i == IndexOf(s, sep) IN IF i = 0 THEN <<>> ELSE SubSeq(s, i + 1, Len(s))

\* tokens that are white space only
WS == {" ", "  ", NL}

\* str.rstrip(), str.lstrip(), str.strip()
RECURSIVE RStrip(_)
RStrip(s) == IF s # <<>> /\ s[Len(s)] \in WS THEN RStrip(SubSeq(s, 1, Len(s) - 1)) ELSE s
RECURSIVE LStrip(_)
LStrip(s) == IF s # <<>> /\ Head(s) \in WS THEN LStrip(Tail(s)) ELSE s
Strip(s) == LStrip(RStrip(s))

\* [f(x) for x in list]
MapSeq(Op(_), list) == [i \in 1..Len(list) |-> Op(list[i])]

\* [x for x in list if Test(x)]
RECURSIVE FilterSeq(_, _)
FilterSeq(Test(_), list) ==
  IF list = <<>> THEN <<>>
  ELSE (IF Test(Head(list)) THEN <<Head(list)>> ELSE <<>>) \o FilterSeq(Test, Tail(list))

\* list(dict.fromkeys(list)): first occurrences, in order
RECURSIVE Dedup(_)
Dedup(list) ==
  IF list = <<>> THEN <<>>
  ELSE LET front == Dedup(SubSeq(list, 1, Len(list) - 1))
           x == list[Len(list)]
       IN IF In(x, front) THEN front ELSE Append(front, x)

Range(list) == {list[i] : i \in 1..Len(list)}
Count(list, x) == Cardinality({i \in 1..Len(list) : list[i] = x})

(***************************************************************************)
(* Names.  A name is a string, so a sequence of tokens: the alias foo2     *)
(* contains the step name foo.                                             *)
(***************************************************************************)
NoAlias == <<>>
foo == <<"foo">>
bar == <<"bar">>
baz == <<"baz">>
nore == <<"nore">>
notake == <<"notake">>
cyc == <<"cyc">>
cyc2 == <<"cyc2">>
pr == <<"pr">>
prn == <<"prn">>
zzz == <<"zzz">>
al == <<"al">>
foo2 == <<"foo", "2">>
m1 == <<"m1">>
m2 == <<"m2">>
m3 == <<"m3">>

\* a parameter params.<tier>$<leaf>, and params.<leaf>
P2(tier, leaf) == <<"params.", tier, "$", leaf>>
P1(leaf) == <<"params.", leaf>>

(***************************************************************************)
(* The module files of the project's workflow directory (inputs): text in  *)
(* the DSL conventions raft.py consumes.  Lines are written without their  *)
(* newline and joined by FileOf.                                           *)
(***************************************************************************)
FileOf(lines) == Concat([i \in 1..Len(lines) |-> Append(lines[i], NL)])

WfHdr(name) == <<"workflow ">> \o name \o <<" {">>
ProcHdr(name) == <<"process ">> \o name \o <<" {">>
RequireLn == <<"// require:">>
ReqLn(p) == <<"//   ">> \o p
TakeLn == <<"  ", "take:">>
InputLn == <<"  ", "input:">>
CloseLn == <<"}">>
BlankLn == <<>>
\* a call at column 0 with the channel argument a, and one that also passes a parameter
CallLn(name) == name \o <<"(", "a", ")">>
CallPLn(name, p) == name \o <<"(">> \o p \o <<",", " ", "a", ")">>

M1Lines ==
  << WfHdr(foo), RequireLn, ReqLn(P2("foo", "x")), ReqLn(P1("threads")), TakeLn,
       CallLn(bar), CallLn(baz), CloseLn, BlankLn,
     WfHdr(baz), RequireLn, ReqLn(P2("baz", "q")), TakeLn,
       CallPLn(bar, P2("bar", "k")), CloseLn, BlankLn,
     WfHdr(bar), RequireLn, ReqLn(P2("bar", "q")), TakeLn, CloseLn, BlankLn,
     WfHdr(nore), TakeLn, CloseLn, BlankLn,
     WfHdr(notake), RequireLn, ReqLn(P2("notake", "n")), CloseLn, BlankLn,
     WfHdr(cyc), RequireLn, ReqLn(P2("cyc", "r")), TakeLn, CallLn(cyc2), CloseLn, BlankLn,
     WfHdr(cyc2), RequireLn, ReqLn(P2("cyc", "r")), TakeLn, CallLn(cyc), CloseLn, BlankLn,
     ProcHdr(pr), RequireLn, ReqLn(P2("pr", "z")), BlankLn, InputLn, CloseLn, BlankLn,
     ProcHdr(prn), InputLn, CloseLn >>

M2Lines ==
  << WfHdr(foo), RequireLn, ReqLn(P2("foo", "w")), TakeLn, CloseLn, BlankLn,
     WfHdr(bar), RequireLn, ReqLn(P2("bar", "q")), TakeLn, CloseLn >>

\* the content of <project>/workflow/<module>/<module>.nf
M1File == FileOf(M1Lines)
M2File == FileOf(M2Lines)
ModuleFile(module) ==
  IF module = m1 THEN M1File
  ELSE IF module = m2 THEN M2File
  ELSE <<>>

\* [i.rstrip() for i in nf_script_fo.readlines()]
M1Contents == MapSeq(RStrip, ReadLines(M1File))
M2Contents == MapSeq(RStrip, ReadLines(M2File))
ModuleContents(module) ==
  IF module = m1 THEN M1Contents
  ELSE IF module = m2 THEN M2Contents
  ELSE <<>>

(***************************************************************************)
(* Results of a function that may end the process: a value, sys.exit, or   *)
(* an uncaught exception (ValueError, UnboundLocalError, KeyError).        *)
(***************************************************************************)
Ok(v) == [st |-> "ok", val |-> v]
SysExit == [st |-> "exit", val |-> <<>>]
Raised == [st |-> "exc", val |-> <<>>]

(***************************************************************************)
(* extract_step_slice_from_nfscript                                        *)
(***************************************************************************)
extract_step_slice_from_nfscript(exists, nfscript, step) ==
  IF ~exists THEN SysExit
  ELSE LET contents == ModuleContents(nfscript)
           wf == WfHdr(step)
           prc == ProcHdr(step)
           hdr == IF In(wf, contents) THEN wf ELSE prc
           step_start == IndexOf(contents, hdr)
           step_end == IndexFrom(contents, CloseLn, step_start)
       IN IF step_start = 0 THEN SysExit
          ELSE IF step_end = 0 THEN Raised
          ELSE Ok(SubSeq(contents, step_start, step_end - 1))

\* re.search('workflow', line), re.search('process', line)
HasWorkflow(line) == In("workflow ", line)
HasProcess(line) == In("process ", line)

\* x.replace('//  ', '').strip(): the comment token "//   " is "//  " and a blank
Uncomment2(x) == Strip(Replace(x, <<"//   ">>, <<" ">>))
\* x.replace('//   ', '')
Uncomment3(x) == Replace(x, <<"//   ">>, <<>>)
\* x.lstrip('//   '): drops the leading characters that are '/' or ' '
RECURSIVE LStripSlashBlank(_)
LStripSlashBlank(x) ==
  IF x # <<>> /\ Head(x) \in {"//   ", " ", "  "} THEN LStripSlashBlank(Tail(x)) ELSE x

(***************************************************************************)
(* get_workflow_str                                                        *)
(***************************************************************************)
get_workflow_str(wf_slice0) ==
  LET wf_slice == MapSeq(Strip, wf_slice0)
      name == Replace(Replace(wf_slice[1], <<"workflow ">>, <<>>), <<" {">>, <<>>)
      require_idx == IndexOf(wf_slice, RequireLn)
      take_idx == IndexOf(wf_slice, <<"take:">>)
  IN IF require_idx # 0
     THEN IF take_idx = 0 THEN Raised
          ELSE Ok(name \o <<"(">>
                  \o Join(<<",", " ">>,
                          MapSeq(Uncomment2, SubSeq(wf_slice, require_idx + 1, take_idx - 1)))
                  \o <<")", NL>>)
     ELSE Ok(name \o <<"(", ")", NL>>)

(***************************************************************************)
(* get_process_str, get_process_params                                     *)
(***************************************************************************)
NotEmpty(x) == x # <<>>
\* re.search('params.', x)
HasParams(x) == In("params.", x)

ProcRequireLines(proc_slice) ==
  LET start_idx == IndexOf(proc_slice, RequireLn)
      stop_idx == IndexFrom(proc_slice, BlankLn, start_idx)
  IN IF start_idx = 0 \/ stop_idx = 0 THEN Raised
     ELSE Ok(SubSeq(proc_slice, start_idx + 1, stop_idx - 1))

get_process_str(proc_slice) ==
  LET lines == ProcRequireLines(proc_slice)
      name == Replace(Replace(proc_slice[1], <<"process ">>, <<>>), <<" {">>, <<>>)
  IN IF lines.st # "ok" THEN Raised
     ELSE Ok(name \o <<"(">>
             \o Join(<<",", " ">>, MapSeq(LStripSlashBlank, FilterSeq(NotEmpty, lines.val)))
             \o <<")", NL>>)

get_process_params(proc_slice) ==
  LET lines == ProcRequireLines(proc_slice)
  IN IF lines.st # "ok" THEN Raised
     ELSE Ok(MapSeq(LStripSlashBlank, FilterSeq(HasParams, lines.val)))

(***************************************************************************)
(* extract_params_from_contents                                            *)
(***************************************************************************)
\* re.findall("(params.*?,|params.*?\)|params.*\?})", line): from each "params",
\* lazily to the first later ',' and, when the line has none, to the first
\* later ')'; the scan goes on after the match.  (The third alternative needs
\* the text "?}", which no line of the module files holds.)
RECURSIVE FindParams(_)
FindParams(line) ==
  LET i == IndexOf(line, "params.")
      rest == SubSeq(line, i + 1, Len(line))
      c == IndexOf(rest, ",")
      b == IndexOf(rest, ")")
      j == IF c # 0 THEN c ELSE b
  IN IF i = 0 THEN <<>>
     ELSE IF j = 0 THEN FindParams(rest)
     ELSE <<SubSeq(line, i, i + j)>> \o FindParams(SubSeq(rest, j + 1, Len(rest)))

\* re.findall("params.*,|params.*\)", line) and line != 'params.'
IsParamsLine(line) == FindParams(line) # <<>> /\ line # <<"params.">>

\* re.search('^//   params', line)
IsRequireParam(line) == Len(line) >= 2 /\ line[1] = "//   " /\ line[2] = "params."

\* i.replace('//   ','').split(',')[0]
RequireParamOf(line) == PartitionHead(Uncomment3(line), ",")

\* i.partition('/')[0].replace(',','').replace(')', '')...: the characters dropped
DroppedChar(t) == t \in {",", ")", "}", "'", "\"", "/", "\\", " =~ ", " != "}
KeptChar(t) == ~DroppedChar(t)
CleanParam(m) == FilterSeq(KeptChar, PartitionHead(m, "/"))

\* re.findall("// require:", line)
MentionsRequire(line) == In("// require:", line)

extract_params_from_contents(contents0, discard_requires) ==
  LET contents == MapSeq(Strip, contents0)
      require_params == <<>>
      has_require == \E i \in 1..Len(contents) : MentionsRequire(contents[i])
      \* start and end are assigned under `if` only
      start == IndexOf(contents, RequireLn)
      end == IndexOf(contents, <<"take:">>)
      params == Concat(MapSeq(FindParams, FilterSeq(IsParamsLine, contents)))
                \o MapSeq(RequireParamOf,
                          FilterSeq(IsRequireParam, SubSeq(contents, start + 1, end - 1)))
      flat == MapSeq(CleanParam, params)
  IN IF has_require /\ (start = 0 \/ end = 0) THEN Raised
     ELSE IF ~has_require THEN Raised
     ELSE IF discard_requires
          THEN Ok(FilterSeq(LAMBDA x : ~In(x, require_params), flat))
          ELSE Ok(flat \o require_params)

(***************************************************************************)
(* extract_wfs_from_script, get_wf_mod_map                                 *)
(***************************************************************************)
\* re.search('^workflow', line)
IsWorkflowLine(line) == line # <<>> /\ Head(line) = "workflow "

\* s.split('{')[0]: what precedes the first '{'; of the token " {" its blank
BeforeBrace(s) ==
  LET i == IndexOf(s, " {") IN IF i = 0 THEN s ELSE Append(SubSeq(s, 1, i - 1), " ")

WfsOfFile(content) ==
  MapSeq(LAMBDA line : Strip(BeforeBrace(Replace(line, <<"workflow ">>, <<>>))),
         FilterSeq(IsWorkflowLine, ReadLines(content)))
M1Wfs == WfsOfFile(M1File)
M2Wfs == WfsOfFile(M2File)
extract_wfs_from_script(script) ==
  IF script = m1 THEN M1Wfs ELSE IF script = m2 THEN M2Wfs ELSE <<>>

\* nf_scripts is the glob's result, in the order the file system gives
RECURSIVE get_wf_mod_map(_)
get_wf_mod_map(nf_scripts) ==
  IF nf_scripts = <<>> THEN <<>>
  ELSE LET before == get_wf_mod_map(SubSeq(nf_scripts, 1, Len(nf_scripts) - 1))
           nf_script == nf_scripts[Len(nf_scripts)]
           workflows == extract_wfs_from_script(nf_script)
       IN \* pairs <<workflow, script>>; a later script overwrites the key
          FilterSeq(LAMBDA e : ~In(e[1], workflows), before)
          \o MapSeq(LAMBDA w : <<w, nf_script>>, Dedup(workflows))

WfKeys(wf_mod_map) == {wf_mod_map[i][1] : i \in 1..Len(wf_mod_map)}
WfModule(wf_mod_map, step) ==
  (CHOOSE e \in Range(wf_mod_map) : e[1] = step)[2]

(***************************************************************************)
(* The main.nf template written by setup (.init.wf) and instantiated by    *)
(* mk_main_wf_and_cfg for the project.                                     *)
(***************************************************************************)
project_id == "p"

TplParam(name, value) == <<"params.", name, value, NL>>

init_wf ==
  << <<"#!/usr/bin/env nextflow", NL>>,
     <<"nextflow.enable.dsl=2", NL>>,
     <<NL>>,
     <<"/*Parameters*/", NL>>,
     TplParam("project_dir", " = ''"),
     TplParam("fq_dir", " = \"${params.project_dir}/fastqs\""),
     TplParam("global_fq_dir", " = ''"),
     TplParam("shared_dir", " = ''"),
     TplParam("metadata_dir", " = \"${params.project_dir}/metadata\""),
     TplParam("ref_dir", " = \"${params.project_dir}/references\""),
     TplParam("output_dir", " = \"${params.project_dir}/outputs\""),
     TplParam("dsp_output_dir", " = \"${params.output_dir}/dataset_prep\""),
     TplParam("analyses_dir", " = \"${params.output_dir}/analyses\""),
     TplParam("batch_dir", " = \"${params.output_dir}/batch\""),
     TplParam("gene_sigs_dir", " = \"${params.batch_dir}/gene_signatures\""),
     TplParam("samps_out_dir", " = \"${params.output_dir}/samples\""),
     TplParam("qc_out_dir", " = \"${params.output_dir}/qc\""),
     TplParam("dummy_file", " = \"\""),
     TplParam("prnt_docs", " = \"\""),
     <<NL>>,
     <<"/*Inclusions*/", NL>>,
     <<NL>>,
     <<"/*Workflows*/", NL>>,
     <<NL>>,
     <<"workflow {", NL>>,
     <<"}", NL>> >>

\* the lines mk_main_wf_and_cfg writes for one template line
MainLineOf(line) ==
  IF line = TplParam("project_dir", " = ''")
  THEN <<"params.", "project_identifier", " = '", project_id, "'", NL>> \o line
  ELSE line

mk_main_wf == Concat(MapSeq(MainLineOf, init_wf))

ParametersMarker == <<"/*Parameters*/", NL>>
InclusionsMarker == <<"/*Inclusions*/", NL>>
WorkflowOpen == <<"workflow {", NL>>
WorkflowClose == <<"}", NL>>

\* a main.nf from which the user's edit has dropped one marker line
WithoutLine(content, line) == Concat(Remove(ReadLines(content), line))

(***************************************************************************)
(* get_params_from_module, get_section_insert_idx                          *)
(***************************************************************************)
\* tokens that start with a blank: line.partition(' ')[0] ends before them
StartsWithBlank(t) ==
  t \in {" ", "  ", " = ''", " = '", " {", " as ", " } from './"}
    \cup {init_wf[i][3] : i \in {j \in 1..Len(init_wf) : Len(init_wf[j]) = 4}}

RECURSIVE BeforeBlank(_)
BeforeBlank(line) ==
  IF line = <<>> \/ StartsWithBlank(Head(line)) THEN <<>>
  ELSE <<Head(line)>> \o BeforeBlank(Tail(line))

\* re.search("^params.*", line)
IsParamDecl(line) == line # <<>> /\ Head(line) = "params."

\* undef_params + defined_params as a set: add_step concatenates the two lists
get_params_from_module(content) ==
  MapSeq(BeforeBlank, FilterSeq(IsParamDecl, MapSeq(RStrip, ReadLines(content))))

\* the Python index (0-based) at which to insert, -1 where list.index raises
\* get_section_insert_idx returning the row that follows the section's heading
get_section_insert_idx_at_heading(contents, section, stop) ==
  LET start == IndexOf(contents, section)
      insert_idx == IndexFrom(contents, stop, start)
  IN IF start = 0 \/ insert_idx = 0 THEN -1 ELSE start

get_section_insert_idx(contents, section, stop) ==
  LET start == IndexOf(contents, section)
      insert_idx == IndexFrom(contents, stop, start)
  IN IF start = 0 \/ insert_idx = 0 THEN -1 ELSE insert_idx - 1

(***************************************************************************)
(* State.                                                                  *)
(***************************************************************************)
VARIABLES
  main_nf,          \* content of <project>/workflow/main.nf
  main_bak,         \* content of main.nf.bak
  wf_dir,           \* modules present in <project>/workflow
  pc,               \* "idle": no command runs; "discover", "apply": inside add_step
  args,             \* arguments of the running, else of the last, add-step
  status,           \* exit status of the last command that ended
  step_str,         \* add_step's locals
  wf_mod_map,
  discoverd_steps,
  new_round_steps,
  final_steps,
  iter,             \* position of `for step in discoverd_steps` (0-based)
  all_step_params,
  hist,             \* the add-steps that succeeded: arguments and what they inserted
  proj_files,       \* load_files: entries under <project>/references and /metadata
  proj_dirs,        \* sub-directories made under them
  mounts_cfg,       \* content of <project>/workflow/mounts.config (first line)
  shared_cfg,       \* raft_cfg['filesystem']: where references and metadata live
  largs,            \* arguments of the last load-reference / load-metadata
  loads             \* loads that succeeded

add_vars == <<main_nf, main_bak, wf_dir, pc, args, status, step_str, wf_mod_map,
              discoverd_steps, new_round_steps, final_steps, iter, all_step_params, hist>>
load_vars == <<proj_files, proj_dirs, mounts_cfg, shared_cfg, largs, loads>>

\* main: the projects directory and the audit logs
VARIABLES
  projects,         \* names of the directories under raft_cfg['filesystem']['projects']
  auto_raft,        \* per project, the lines of <project>/.raft/auto.raft
  argv,             \* the last command line that main was given
  main_pc,          \* where main stands: "idle", "handler" or "dump"
  cmds              \* number of command lines given so far

main_vars == <<projects, auto_raft, argv, main_pc, cmds>>

\* load_module: the module repositories and the process of one load-module
VARIABLES
  remote,           \* per module of the repositories, the modules its file includes
  workflow_dir,     \* modules cloned into <project>/workflow
  mod_args,         \* the args object that load_module and recurs_load_modules share
  stack,            \* call frames of load_module and recurs_load_modules, innermost last
  clone_log,        \* per run of the subgroup loop, its Repo.clone_from attempts
  mloads            \* number of load-module commands given so far

mod_vars == <<remote, workflow_dir, mod_args, stack, clone_log, mloads>>

\* update_mounts
VARIABLES
  bound_dirs,       \* the bind_dirs list that the last update-mounts built
  umounts           \* number of update-mounts commands given so far

mount_vars == <<bound_dirs, umounts>>

\* run_workflow
VARIABLES
  run_args,         \* the arguments of the last run-workflow
  engine,           \* what its engine subprocess did: exit code, reports written
  logs_dir,         \* the report files in <project>/logs
  outputs,          \* <project>/outputs: whether it and its reports directory
                    \* exist, and the report files in outputs/reports
  runs              \* number of run-workflow commands given so far

run_vars == <<run_args, engine, logs_dir, outputs, runs>>

\* setup
VARIABLES
  setup_args,       \* the arguments and prompt answers of the last setup
  raft_cfg,         \* the content of .raft.cfg, or Absent
  raft_cfg_orig,    \* the content of .raft.cfg.orig, or Absent
  setups            \* number of setup commands given so far

setup_vars == <<setup_args, raft_cfg, raft_cfg_orig, setups>>

\* snapshot_postproc (package-project), expand_params, load_project
VARIABLES
  snap_in,          \* the rows of the audit log that snapshot_postproc is given
  snap_out,         \* the rows of the file that it writes
  snap_done,        \* whether it has run
  exp_in,           \* the list of parameters that expand_params is given
  exp_out,          \* the dict that it returns: <<key, value>> pairs
  exp_done,         \* whether it has run
  lp_archive,       \* the members of the package that load-project is given
  lp_files,         \* per file of the new project, what it holds (or NoFile)
  lp_pc             \* where load_project stands

pkg_vars == <<snap_in, snap_out, snap_done, exp_in, exp_out, exp_done,
              lp_archive, lp_files, lp_pc>>
ext_vars == <<main_vars, mod_vars, mount_vars, run_vars, setup_vars, pkg_vars>>
vars == <<add_vars, load_vars, ext_vars>>

\* no command has been given yet; no project exists
NoCmd == [command |-> "", project_id |-> ""]
IdleMain == projects = {} /\ auto_raft = <<>> /\ argv = NoCmd /\ main_pc = "idle" /\ cmds = 0
NoModule == [module |-> "", no_deps |-> TRUE]
IdleMod ==
  /\ remote = <<>> /\ workflow_dir = {} /\ mod_args = NoModule
  /\ stack = <<>> /\ clone_log = <<>> /\ mloads = 0
IdleMount == bound_dirs = <<>> /\ umounts = 0
NoRun == [keep_previous_outputs |-> FALSE, no_reports |-> FALSE]
NoEngine == [returncode |-> 0, written |-> {}]
\* fill_dir makes an empty outputs directory
EmptyOutputs == [exists |-> TRUE, reports_dir |-> FALSE, reports |-> {}]
IdleRun ==
  /\ run_args = NoRun /\ engine = NoEngine /\ logs_dir = {} /\ outputs = EmptyOutputs /\ runs = 0
Absent == [filesystem |-> <<>>, nextflow_subgroups |-> <<>>]
NoSetup == [default |-> TRUE, projects |-> "", references |-> "", subgroups |-> ""]
\* the other specifications start after setup -d
DefaultCfg ==
  [filesystem |-> [projects |-> "cwd/projects", references |-> "cwd/references"],
   nextflow_subgroups |-> "Tools,Projects,Datasets"]
IdleSetup ==
  /\ setup_args = NoSetup /\ raft_cfg = DefaultCfg /\ raft_cfg_orig = Absent /\ setups = 1
IdlePkg ==
  /\ snap_in = <<>> /\ snap_out = <<>> /\ snap_done = FALSE
  /\ exp_in = <<>> /\ exp_out = <<>> /\ exp_done = FALSE
  /\ lp_archive = {} /\ lp_files = <<>> /\ lp_pc = "idle"
IdleExt == IdleMain /\ IdleMod /\ IdleMount /\ IdleRun /\ IdleSetup /\ IdlePkg

NoArgs == [module |-> <<>>, step |-> <<>>, alias |-> <<>>]

(***************************************************************************)
(* add_step                                                                *)
(***************************************************************************)
\* lines 1588-1591
inclusion_str_of(a) ==
  IF a.alias # <<>>
  THEN <<"include { ">> \o a.step \o <<" as ">> \o a.alias \o <<" } from './">>
       \o a.module \o <<"/">> \o a.module \o <<".nf'", NL>>
  ELSE <<"include { ">> \o a.step \o <<" } from './">>
       \o a.module \o <<"/">> \o a.module \o <<".nf'", NL>>

\* lines 1608-1610
alias_step_str(a, str) ==
  IF a.alias # <<>>
  THEN Replace(a.alias \o <<"(">> \o PartitionTail(str, "("), a.step, a.alias)
  ELSE str

\* lines 1600-1610: the call string, or how the process ends
step_str_of(a, step_slice) ==
  LET r == IF HasWorkflow(step_slice[1]) THEN get_workflow_str(step_slice)
           ELSE IF HasProcess(step_slice[1]) THEN get_process_str(step_slice)
           ELSE Ok(<<>>)
  IN IF r.st = "ok" THEN Ok(alias_step_str(a, r.val)) ELSE r

\* line 1629: the names called at column 0 of the slice that are keys of the map
CalledSteps(step_slice, map) ==
  FilterSeq(LAMBDA n : n \in WfKeys(map),
            MapSeq(LAMBDA i : PartitionHead(i, "("), step_slice))

StepSliceOf(map, step) ==
  extract_step_slice_from_nfscript(TRUE, WfModule(map, step), step)

\* lines 1634-1639
RECURSIVE StepParams(_, _, _)
StepParams(a, map, steps) ==
  IF steps = <<>> THEN Ok(<<>>)
  ELSE LET step == Head(steps)
           sl == StepSliceOf(map, step)
           here == IF sl.st = "ok"
                   THEN extract_params_from_contents(sl.val, step # a.step)
                   ELSE sl
           rest == StepParams(a, map, Tail(steps))
       IN IF here.st # "ok" THEN here
          ELSE IF rest.st # "ok" THEN rest
          ELSE Ok(here.val \o rest.val)

\* line 1644 with `or` in place of `and`: refuses only when both strings are there
NotYetAdded_Either(str, inclusion_str, main_contents) ==
  ~In(str, main_contents) \/ ~In(inclusion_str, main_contents)

\* line 1644
NotYetAdded(str, inclusion_str, main_contents) ==
  ~In(str, main_contents) /\ ~In(inclusion_str, main_contents)

\* lines 1650-1654
DeclOf(x) == x \o <<" = ''">>
\* lines 1650-1654 without the newline that ends the declarations
params_to_add_unterminated(a, params) ==
  LET joined == Join(<<NL>>, MapSeq(DeclOf, Dedup(params)))
  IN IF a.alias # <<>> THEN Replace(joined, a.step, a.alias) ELSE joined

params_to_add_of(a, params) ==
  LET joined == Join(<<NL>>, MapSeq(DeclOf, Dedup(params)))
  IN (IF a.alias # <<>> THEN Replace(joined, a.step, a.alias) ELSE joined) \o <<NL>>

\* line 1658
CallBlock(str) == Replace(Replace(str, <<"(">>, <<"(", NL, "  ">>), <<",", " ">>, <<",", NL, "  ">>)

\* lines 1644-1666 with main.nf written after each insertion instead of once
ApplyChanges_WriteEach(a, main_contents, str, params) ==
  LET inclusion_str == inclusion_str_of(a)
      inc_idx == get_section_insert_idx(main_contents, InclusionsMarker, <<NL>>)
      c1 == Insert(main_contents, inc_idx, inclusion_str)
      params_idx == get_section_insert_idx(c1, ParametersMarker, <<NL>>)
      c2 == Insert(c1, params_idx, params_to_add_of(a, params))
      wf_idx == get_section_insert_idx(c2, WorkflowOpen, WorkflowClose)
      c3 == Insert(c2, wf_idx, CallBlock(str))
  IN IF ~NotYetAdded(str, inclusion_str, main_contents)
     THEN [st |-> "exit", val |-> Concat(main_contents), decl |-> <<>>]
     ELSE IF inc_idx < 0 THEN [st |-> "exc", val |-> Concat(main_contents), decl |-> <<>>]
     ELSE IF params_idx < 0 THEN [st |-> "exc", val |-> Concat(c1), decl |-> <<>>]
     ELSE IF wf_idx < 0 THEN [st |-> "exc", val |-> Concat(c2), decl |-> <<>>]
     ELSE [st |-> "ok", val |-> Concat(c3), decl |-> params_to_add_of(a, params)]

\* lines 1644-1666 with the call inserted as the first row of the workflow block
ApplyChanges_CallFirst(a, main_contents, str, params) ==
  LET inclusion_str == inclusion_str_of(a)
      inc_idx == get_section_insert_idx(main_contents, InclusionsMarker, <<NL>>)
      c1 == Insert(main_contents, inc_idx, inclusion_str)
      params_idx == get_section_insert_idx(c1, ParametersMarker, <<NL>>)
      c2 == Insert(c1, params_idx, params_to_add_of(a, params))
      wf_idx == IF get_section_insert_idx(c2, WorkflowOpen, WorkflowClose) < 0 THEN -1
                ELSE IndexOf(c2, WorkflowOpen)
      c3 == Insert(c2, wf_idx, CallBlock(str))
      untouched == Concat(main_contents)
  IN IF ~NotYetAdded(str, inclusion_str, main_contents) THEN [st |-> "exit", val |-> untouched, decl |-> <<>>]
     ELSE IF inc_idx < 0 THEN [st |-> "exc", val |-> untouched, decl |-> <<>>]
     ELSE IF params_idx < 0 THEN [st |-> "exc", val |-> untouched, decl |-> <<>>]
     ELSE IF wf_idx < 0 THEN [st |-> "exc", val |-> untouched, decl |-> <<>>]
     ELSE [st |-> "ok", val |-> Concat(c3), decl |-> params_to_add_of(a, params)]

\* lines 1644-1666: how the process ends (st), the content of main.nf that it
\* leaves on disk (val) and the declarations it inserted (decl); the only
\* write is the one of lines 1661-1662
ApplyChanges(a, main_contents, str, params) ==
  LET inclusion_str == inclusion_str_of(a)
      inc_idx == get_section_insert_idx(main_contents, InclusionsMarker, <<NL>>)
      c1 == Insert(main_contents, inc_idx, inclusion_str)
      params_idx == get_section_insert_idx(c1, ParametersMarker, <<NL>>)
      c2 == Insert(c1, params_idx, params_to_add_of(a, params))
      wf_idx == get_section_insert_idx(c2, WorkflowOpen, WorkflowClose)
      c3 == Insert(c2, wf_idx, CallBlock(str))
      untouched == Concat(main_contents)
  IN IF ~NotYetAdded(str, inclusion_str, main_contents) THEN [st |-> "exit", val |-> untouched, decl |-> <<>>]
     ELSE IF inc_idx < 0 THEN [st |-> "exc", val |-> untouched, decl |-> <<>>]
     ELSE IF params_idx < 0 THEN [st |-> "exc", val |-> untouched, decl |-> <<>>]
     ELSE IF wf_idx < 0 THEN [st |-> "exc", val |-> untouched, decl |-> <<>>]
     ELSE [st |-> "ok", val |-> Concat(c3), decl |-> params_to_add_of(a, params)]

ResetLocals ==
  /\ step_str' = <<>>
  /\ wf_mod_map' = <<>>
  /\ discoverd_steps' = <<>>
  /\ new_round_steps' = <<>>
  /\ final_steps' = <<>>
  /\ iter' = 0
  /\ all_step_params' = <<>>

\* the process ends with a fatal error (sys.exit with a message, or a traceback)
Die ==
  /\ pc' = "idle"
  /\ status' = 1
  /\ ResetLocals
  /\ UNCHANGED <<main_nf, hist>>

\* lines 1566-1624 with the backup of line 1585 made after the step is found
AddStepStart_BackupLate(a, nf_scripts) ==
  /\ pc = "idle"
  /\ Len(hist) < MaxAdds
  /\ args' = a
  /\ main_bak' = IF extract_step_slice_from_nfscript(a.module \in wf_dir, a.module, a.step).st = "ok"
               THEN main_nf ELSE main_bak
  /\ LET sl == extract_step_slice_from_nfscript(a.module \in wf_dir, a.module, a.step)
         str == IF sl.st = "ok" THEN step_str_of(a, sl.val) ELSE sl
     IN IF str.st # "ok" THEN Die
        ELSE IF HasWorkflow(sl.val[1])
        THEN /\ pc' = "discover"
             /\ step_str' = str.val
             /\ wf_mod_map' = get_wf_mod_map(nf_scripts)
             /\ discoverd_steps' = <<a.step>>
             /\ new_round_steps' = <<>>
             /\ final_steps' = <<>>
             /\ iter' = 0
             /\ all_step_params' = <<>>
             /\ UNCHANGED <<main_nf, status, hist>>
        ELSE /\ pc' = "apply"
             /\ step_str' = str.val
             /\ all_step_params' = get_process_params(sl.val).val
             /\ UNCHANGED <<main_nf, status, hist, wf_mod_map, discoverd_steps,
                            new_round_steps, final_steps, iter>>
  /\ UNCHANGED <<wf_dir, load_vars, ext_vars>>

\* lines 1566-1624 and 1640-1641: up to the discovery loop
AddStepStart(a, nf_scripts) ==
  /\ pc = "idle"
  /\ Len(hist) < MaxAdds
  /\ args' = a
  /\ main_bak' = main_nf
  /\ LET sl == extract_step_slice_from_nfscript(a.module \in wf_dir, a.module, a.step)
         str == IF sl.st = "ok" THEN step_str_of(a, sl.val) ELSE sl
     IN IF str.st # "ok" THEN Die
        ELSE IF HasWorkflow(sl.val[1])
        THEN /\ pc' = "discover"
             /\ step_str' = str.val
             /\ wf_mod_map' = get_wf_mod_map(nf_scripts)
             /\ discoverd_steps' = <<a.step>>
             /\ new_round_steps' = <<>>
             /\ final_steps' = <<>>
             /\ iter' = 0
             /\ all_step_params' = <<>>
             /\ UNCHANGED <<main_nf, status, hist>>
        ELSE /\ pc' = "apply"
             /\ step_str' = str.val
             /\ all_step_params' = get_process_params(sl.val).val
             /\ UNCHANGED <<main_nf, status, hist, wf_mod_map, discoverd_steps,
                            new_round_steps, final_steps, iter>>
  /\ UNCHANGED <<wf_dir, load_vars, ext_vars>>

\* lines 1627-1631: one pass of the body of `for step in discoverd_steps`
DiscoverStep ==
  /\ pc = "discover"
  /\ iter < Len(discoverd_steps)
  /\ Len(final_steps) < MaxFinal
  /\ LET step == discoverd_steps[iter + 1]
         sl == StepSliceOf(wf_mod_map, step)
     IN /\ new_round_steps' = new_round_steps \o CalledSteps(sl.val, wf_mod_map)
        /\ discoverd_steps' = Remove(discoverd_steps, step)
        /\ final_steps' = Append(final_steps, step)
        /\ iter' = iter + 1
  /\ UNCHANGED <<main_nf, main_bak, wf_dir, pc, args, status, step_str, wf_mod_map,
                 all_step_params, hist, load_vars, ext_vars>>

\* lines 1625-1626, 1632: the for loop is exhausted; extend, and test `while` again
DiscoverRound ==
  /\ pc = "discover"
  /\ iter >= Len(discoverd_steps)
  /\ discoverd_steps' = discoverd_steps \o new_round_steps
  /\ new_round_steps' = <<>>
  /\ iter' = 0
  /\ pc' = IF discoverd_steps \o new_round_steps = <<>> THEN "apply" ELSE "discover"
  /\ UNCHANGED <<main_nf, main_bak, wf_dir, args, status, step_str, wf_mod_map,
                 final_steps, all_step_params, hist, load_vars, ext_vars>>

\* lines 1634-1662: how add_step ends once the steps are known, and the
\* main.nf it leaves
ApplyResult(a, content, str, steps, process_params, map) ==
  LET params == IF steps # <<>> THEN StepParams(a, map, steps) ELSE Ok(process_params)
  IN IF params.st = "ok"
     THEN ApplyChanges(a, ReadLines(content), str, params.val)
     ELSE [st |-> params.st, val |-> content, decl |-> <<>>]

\* the process ends: exit status, main.nf on disk, and the record of a success
EndAddStep(new) ==
  /\ main_nf' = new.val
  /\ status' = IF new.st = "ok" THEN 0 ELSE 1
  /\ hist' = IF new.st = "ok"
             THEN Append(hist, [args |-> args, step_str |-> step_str,
                                params_to_add |-> new.decl])
             ELSE hist

\* lines 1634-1666: the parameters, the three insertions, the write
AddStepApply ==
  /\ pc = "apply"
  /\ EndAddStep(ApplyResult(args, main_nf, step_str, final_steps, all_step_params, wf_mod_map))
  /\ pc' = "idle"
  /\ ResetLocals
  /\ UNCHANGED <<main_bak, wf_dir, args, load_vars, ext_vars>>

(***************************************************************************)
(* Paths.  A path is a list of components, a component a string; PathStr   *)
(* is the path as the string Python handles.                               *)
(***************************************************************************)
PathStr(path) == Concat([i \in 1..Len(path) |-> <<"/">> \o path[i]])

EndsWith(list, tail) ==
  Len(tail) <= Len(list) /\ SubSeq(list, Len(list) - Len(tail) + 1, Len(list)) = tail

\* getcwd(), and raft_cfg['filesystem']['projects'] as setup -d writes it
raft_dir == << <<"raft">> >>
projects_dir == raft_dir \o << <<"projects">> >>

\* raft_cfg['filesystem'][base]: the default of setup (lines 292-297), or a
\* directory elsewhere that the user gave
SharedRoot(cfg, base) ==
  IF cfg = "default" THEN raft_dir \o << <<base>> >> ELSE << <<"ext">>, <<base>> >>

\* the files below a shared root, relative to it (inputs)
SharedFiles ==
  { << <<"a">>, <<"x.fa">> >>, << <<"b">>, <<"x.fa">> >>,
    << <<"a">>, <<"y.fa">> >>, << <<"a">>, <<"y.fa", ".fai">> >> }

\* glob(pjoin(full_base, '**', args.file), recursive=True)
Glob(file) == {f \in SharedFiles : EndsWith(f, file)}

(***************************************************************************)
(* mk_mounts_cfg, update_mounts_cfg                                        *)
(***************************************************************************)
\* str.split(',')
RECURSIVE Split(_)
Split(line) ==
  LET i == IndexOf(line, ",")
  IN IF i = 0 THEN <<line>>
     ELSE <<SubSeq(line, 1, i - 1)>> \o Split(SubSeq(line, i + 1, Len(line)))

\* lines 646-648 and 669-673: bind_dirs of fill_dir, joined
mk_mounts_cfg == Join(<<",">>, <<PathStr(Append(projects_dir, <<project_id>>)), PathStr(raft_dir)>>)

\* line 696 with the test turned round: path.startswith(bind_dir)
Covered_Reversed(bind_dir, paths) == \E i \in 1..Len(paths) : StartsWith(paths[i], bind_dir)

\* line 696
Covered(bind_dir, paths) == \E i \in 1..Len(paths) : StartsWith(bind_dir, paths[i])

\* lines 698-700: `for path in paths` with paths.remove(path) inside; pos is
\* the iterator's position (0-based), which a removal does not move back
RECURSIVE RemoveUnder(_, _, _)
RemoveUnder(paths, bind_dir, pos) ==
  IF pos >= Len(paths) THEN paths
  ELSE IF StartsWith(paths[pos + 1], bind_dir)
       THEN RemoveUnder(Remove(paths, paths[pos + 1]), bind_dir, pos + 1)
       ELSE RemoveUnder(paths, bind_dir, pos + 1)

\* lines 695-700: the loop over bind_dirs; st is <<paths, bind_dirs_to_add>>
RECURSIVE BindLoop(_, _, _)
BindLoop(paths, to_add, bind_dirs) ==
  IF bind_dirs = <<>> THEN <<paths, to_add>>
  ELSE LET bind_dir == Head(bind_dirs)
           add == IF ~Covered(bind_dir, paths) THEN Append(to_add, bind_dir) ELSE to_add
       IN BindLoop(RemoveUnder(paths, bind_dir, 0), add, Tail(bind_dirs))

\* ifo.readline().strip('\n')
FirstLine(content) ==
  LET lines == ReadLines(content)
      line == IF lines = <<>> THEN <<>> ELSE lines[1]
  IN IF line # <<>> /\ line[Len(line)] = NL THEN SubSeq(line, 1, Len(line) - 1) ELSE line

MountPaths(content) == Split(FirstLine(content))

update_mounts_cfg(content, bind_dirs) ==
  LET r == BindLoop(MountPaths(content), <<>>, bind_dirs)
  IN Join(<<",">>, r[1] \o r[2]) \o <<NL>>

(***************************************************************************)
(* load_files (load-reference, load-metadata)                              *)
(***************************************************************************)
\* <project>/<out_dir>/<sub_dir>/<basename>, as pjoin builds it: an empty
\* sub_dir adds no component
ResultFile(out_dir, sub_dir, globbed_file) ==
  << <<out_dir>> >> \o (IF sub_dir = <<>> THEN <<>> ELSE <<sub_dir>>)
    \o <<globbed_file[Len(globbed_file)]>>

Exists(files, path) == \E e \in files : e.path = path

\* lines 767-814 with the makedirs of lines 794-796 moved above line 785
load_files_mkdir_first(a, cfg, files, dirs, mounts) ==
  LET full_base == SharedRoot(cfg, a.out_dir)
      globbed_files == Glob(a.file)
      globbed_file == CHOOSE f \in globbed_files : TRUE
      realpath == PathStr(full_base \o globbed_file)
      sub == << <<a.out_dir>>, a.sub_dir >>
      result_file == ResultFile(a.out_dir, a.sub_dir, globbed_file)
      made == IF a.sub_dir # <<>> THEN dirs \cup {sub} ELSE dirs
      died == [status |-> 1, files |-> files, dirs |-> made, mounts |-> mounts]
  IN IF Cardinality(globbed_files) = 0 THEN died
     ELSE IF Cardinality(globbed_files) > 1 THEN died
     ELSE IF Exists(files, result_file) THEN died
     ELSE IF a.mode = "symlink"
     THEN [status |-> 0,
           files |-> files \cup {[path |-> result_file, kind |-> "symlink", target |-> realpath]},
           dirs |-> made,
           mounts |-> update_mounts_cfg(mounts, <<realpath>>)]
     ELSE [status |-> 0,
           files |-> files \cup {[path |-> result_file, kind |-> "copy", target |-> realpath]},
           dirs |-> made,
           mounts |-> mounts]

\* lines 767-814 as a function of what the call reads: the exit status and
\* what the project holds afterwards
load_files_result(a, cfg, files, dirs, mounts) ==
  LET full_base == SharedRoot(cfg, a.out_dir)
      globbed_files == Glob(a.file)
      globbed_file == CHOOSE f \in globbed_files : TRUE
      realpath == PathStr(full_base \o globbed_file)
      sub == << <<a.out_dir>>, a.sub_dir >>
      result_file == ResultFile(a.out_dir, a.sub_dir, globbed_file)
      made == IF a.sub_dir # <<>> THEN dirs \cup {sub} ELSE dirs
      died == [status |-> 1, files |-> files, dirs |-> dirs, mounts |-> mounts]
  IN IF Cardinality(globbed_files) = 0 THEN died
     ELSE IF Cardinality(globbed_files) > 1 THEN died
     ELSE IF Exists(files, result_file) THEN [died EXCEPT !.dirs = made]
     ELSE IF a.mode = "symlink"
     THEN [status |-> 0,
           files |-> files \cup {[path |-> result_file, kind |-> "symlink", target |-> realpath]},
           dirs |-> made,
           mounts |-> update_mounts_cfg(mounts, <<realpath>>)]
     ELSE [status |-> 0,
           files |-> files \cup {[path |-> result_file, kind |-> "copy", target |-> realpath]},
           dirs |-> made,
           mounts |-> mounts]

\* load-reference / load-metadata: one run of the command
load_files(a) ==
  /\ loads < MaxLoads
  /\ LET r == load_files_result(a, shared_cfg, proj_files, proj_dirs, mounts_cfg)
     IN /\ status' = r.status
        /\ proj_files' = r.files
        /\ proj_dirs' = r.dirs
        /\ mounts_cfg' = r.mounts
        /\ loads' = IF r.status = 0 THEN loads + 1 ELSE loads
  /\ largs' = a
  /\ UNCHANGED <<shared_cfg, ext_vars>>
  /\ UNCHANGED <<main_nf, main_bak, wf_dir, pc, args, step_str, wf_mod_map,
                 discoverd_steps, new_round_steps, final_steps, iter, all_step_params, hist>>

(***************************************************************************)
(* The add-step commands issued, the initial state, the specification.     *)
(***************************************************************************)
Aliases == {NoAlias, al, foo2}
Requests ==
  [module : {m1}, step : {foo}, alias : Aliases]
    \cup [module : {m2}, step : {foo}, alias : {NoAlias, al}]
    \cup [module : {m1, m2}, step : {bar}, alias : {NoAlias}]
    \cup [module : {m1}, step : {pr}, alias : {NoAlias, al}]
    \cup [module : {m1}, step : {nore, notake, cyc, prn, zzz}, alias : {NoAlias}]
    \cup [module : {m3}, step : {foo}, alias : {NoAlias}]

\* the orders in which glob may list the module files
GlobOrders(dir) ==
  {o \in [1..Cardinality(dir) -> dir] : \A i, j \in DOMAIN o : i # j => o[i] # o[j]}

InitAdd ==
  /\ main_nf \in {mk_main_wf, WithoutLine(mk_main_wf, ParametersMarker),
                  WithoutLine(mk_main_wf, InclusionsMarker)}
  /\ main_bak = <<>>
  /\ wf_dir = {m1, m2}
  /\ pc = "idle"
  /\ args = NoArgs
  /\ status = 0
  /\ step_str = <<>>
  /\ wf_mod_map = <<>>
  /\ discoverd_steps = <<>>
  /\ new_round_steps = <<>>
  /\ final_steps = <<>>
  /\ iter = 0
  /\ all_step_params = <<>>
  /\ hist = <<>>

NoLoad == [out_dir |-> "", file |-> <<>>, sub_dir |-> <<>>, mode |-> ""]

y_fa == << <<"y.fa">> >>
LoadRequests ==
  [out_dir : {"references"}, file : {y_fa, << <<"y.fa", ".fai">> >>, << <<"x.fa">> >>,
                                     << <<"a">>, <<"x.fa">> >>, << <<"z.fa">> >>},
   sub_dir : {<<>>, <<"s1">>}, mode : {"symlink"}]
    \cup [out_dir : {"references"}, file : {y_fa}, sub_dir : {<<>>, <<"s1">>}, mode : {"copy"}]
    \cup [out_dir : {"metadata"}, file : {y_fa}, sub_dir : {<<>>}, mode : {"symlink"}]

\* the project as init-project leaves it
InitLoad ==
  /\ proj_files = {}
  /\ proj_dirs = {}
  /\ mounts_cfg = mk_mounts_cfg
  /\ shared_cfg \in {"default", "external"}
  /\ largs = NoLoad
  /\ loads = 0

Init == InitAdd /\ InitLoad /\ shared_cfg = "default" /\ IdleExt

Next ==
  \/ \E a \in Requests, o \in GlobOrders(wf_dir) : AddStepStart(a, o)
  \/ DiscoverStep
  \/ DiscoverRound
  \/ AddStepApply

Spec == Init /\ [][Next]_vars

\* the asset loader on a project that init-project has just made
LoadInit == InitAdd /\ InitLoad /\ main_nf = mk_main_wf /\ IdleExt
LoadNext == \E a \in LoadRequests : load_files(a)
LoadSpec == LoadInit /\ [][LoadNext]_vars

(***************************************************************************)
(* Properties of add-step.  They speak of the add-step that ended last:    *)
(* args are its arguments, main_bak the main.nf it found, main_nf the      *)
(* main.nf it left, status its exit status.                                *)
(***************************************************************************)
Finished == pc = "idle" /\ args # NoArgs

\* the add-steps that had succeeded when the last one began
PriorHist == IF status = 0 THEN SubSeq(hist, 1, Len(hist) - 1) ELSE hist
AddedBefore(a) == \E i \in 1..Len(PriorHist) : PriorHist[i].args = a

NoRepeat(list) == \A i, j \in 1..Len(list) : list[i] = list[j] => i = j
AllIn(lines, contents) == \A i \in 1..Len(lines) : In(lines[i], contents)

IsInclude(line) == line # <<>> /\ Head(line) = "include { "
\* what an inclusion statement of main.nf brings in: the step, with its alias
IncludeKeys ==
  MapSeq(LAMBDA l : PartitionHead(Tail(l), " } from './"),
         FilterSeq(IsInclude, ReadLines(main_nf)))

IsCallHead(line) == Len(line) >= 3 /\ line[Len(line) - 1] = "(" /\ line[Len(line)] = NL
\* the names invoked in main.nf
CallHeads ==
  MapSeq(LAMBDA l : SubSeq(l, 1, Len(l) - 2), FilterSeq(IsCallHead, ReadLines(main_nf)))

\* C1: an add-step of a module and step that an earlier add-step, with the
\* same arguments and no alias, has added ends with a non-zero status and
\* leaves main.nf as it found it.
C1_ReAddRejected ==
  (Finished /\ args.alias = NoAlias /\ AddedBefore(args))
    => (status # 0 /\ main_nf = main_bak)

C1_ReAddReached ==
  /\ Finished /\ args.alias = NoAlias /\ AddedBefore(args)
  /\ status = 1 /\ hist # <<>> /\ main_nf # mk_main_wf

\* the block of the step that the last add-step named, as add_step reads it
ArgsSlice == extract_step_slice_from_nfscript(args.module \in wf_dir, args.module, args.step)

\* C2: on a main.nf as the template makes it, with the module loaded and a
\* block for the step in its file (a workflow with its take: section or a
\* process with its input: section), an add-step succeeds and main.nf then
\* holds exactly one inclusion statement and one call for the step, with a
\* require block in the step or without.
C2_FirstAddSucceeds ==
  (/\ Finished /\ main_bak = mk_main_wf /\ ArgsSlice.st = "ok"
   /\ (In(TakeLn, ArgsSlice.val) \/ In(InputLn, ArgsSlice.val)))
    => /\ status = 0
       /\ Count(ReadLines(main_nf), inclusion_str_of(args)) = 1
       /\ Count(CallHeads, IF args.alias # NoAlias THEN args.alias ELSE args.step) = 1

\* the inputs with which add-step is specified to fail
FailingPath ==
  \/ args.module \notin wf_dir
  \/ ArgsSlice.st # "ok"
  \/ In(inclusion_str_of(args), ReadLines(main_bak))
  \/ ~In(InclusionsMarker, ReadLines(main_bak))
  \/ ~In(ParametersMarker, ReadLines(main_bak))
  \/ ~In(RequireLn, ArgsSlice.val)
  \/ (HasWorkflow(ArgsSlice.val[1]) /\ ~In(TakeLn, ArgsSlice.val))

\* main_nf is main_bak with the inclusion, the declarations and the call added
AllInserted ==
  LET h == hist[Len(hist)]
      new == ReadLines(main_nf)
      decls == ReadLines(h.params_to_add)
      call == ReadLines(CallBlock(h.step_str))
  IN /\ hist # <<>> /\ h.args = args
     /\ In(inclusion_str_of(args), new)
     /\ AllIn(decls, new)
     /\ AllIn(call, new)
     /\ AllIn(ReadLines(main_bak), new)
     /\ Len(new) = Len(ReadLines(main_bak)) + 1 + Len(decls) + Len(call)

\* C3: main.nf is not touched while add-step runs; an add-step that fails
\* (module or step not found, step already included, marker line missing,
\* no require block, no take line, ...) ends with a non-zero status and
\* leaves main.nf as it found it; main.nf changes only in an add-step that
\* succeeds, and then all three insertions are in it.
C3_AllOrNothing ==
  /\ pc # "idle" => main_nf = main_bak
  /\ Finished => \/ status # 0 /\ main_nf = main_bak
                 \/ status = 0 /\ AllInserted
  /\ (Finished /\ FailingPath) => status # 0

\* an add-step whose first insertion point exists and whose second does not
C3_SecondInsertionFails ==
  /\ Finished /\ status = 1 /\ main_nf = main_bak
  /\ ArgsSlice.st = "ok" /\ In(RequireLn, ArgsSlice.val)
  /\ In(InclusionsMarker, ReadLines(main_bak))
  /\ ~In(ParametersMarker, ReadLines(main_bak))

\* the step and alias of each invocation in main.nf: every add-step that
\* succeeded wrote one (AllInserted)
InvokedPairs == [i \in 1..Len(hist) |-> <<hist[i].args.step, hist[i].args.alias>>]

\* C4: main.nf never holds two inclusion statements, nor two invocations,
\* for one step and alias.
C4_OneStatementPerStep == NoRepeat(IncludeKeys) /\ NoRepeat(InvokedPairs)

\* C5: the discovery loop visits no step twice.
C5_VisitedOnce == NoRepeat(final_steps)

DeclaredBy(h) == Range(get_params_from_module(h.params_to_add))

\* C6: two add-steps of one module and step under two aliases both succeed,
\* write different calls, and declare no parameter in common.
C6_AliasesDisjoint ==
  \A i, j \in 1..Len(hist) :
    (/\ i # j
     /\ hist[i].args.module = hist[j].args.module
     /\ hist[i].args.step = hist[j].args.step
     /\ hist[i].args.alias # NoAlias /\ hist[j].args.alias # NoAlias
     /\ hist[i].args.alias # hist[j].args.alias)
      => /\ hist[i].step_str # hist[j].step_str
         /\ DeclaredBy(hist[i]) \cap DeclaredBy(hist[j]) = {}

\* C7: main.nf declares no parameter twice.
C7_DeclaredOnce == NoRepeat(get_params_from_module(main_nf))


(***************************************************************************)
(* Properties of load-reference and load-metadata.  In a step of LoadSpec  *)
(* largs' is the request served; the unprimed variables are the project    *)
(* before the command, the primed ones the project after it.               *)
(***************************************************************************)
\* the only file that matches, where it really is, and where the project gets it
Match(a) == CHOOSE f \in Glob(a.file) : TRUE
RealPath(a) == PathStr(SharedRoot(shared_cfg, a.out_dir) \o Match(a))
Dest(a) == ResultFile(a.out_dir, a.sub_dir, Match(a))

\* a symlink request with one match whose destination is still free
SymlinkCase(a) ==
  Cardinality(Glob(a.file)) = 1 /\ a.mode = "symlink" /\ ~Exists(proj_files, Dest(a))

Linked(files, a) ==
  [path |-> Dest(a), kind |-> "symlink", target |-> RealPath(a)] \in files

\* C8 as the specification states it: a symlink load with one match and a
\* free destination puts the file at the destination and leaves mounts.config
\* with exactly one path more than it had.
C8_GainsOnePath ==
  [][SymlinkCase(largs')
       => /\ Linked(proj_files', largs')
          /\ Len(MountPaths(mounts_cfg')) = Len(MountPaths(mounts_cfg)) + 1]_vars

\* C8, amended: a symlink load with one match and a free destination puts a
\* link to the file at the destination; mounts.config gains the real path of
\* the file, and nothing else changes in it, when no listed path is a prefix
\* of the real path and the real path is a prefix of no listed path; it
\* gains no path when a listed path is a prefix of the real path.
C8_GainsPathUnlessCovered ==
  [][SymlinkCase(largs')
       => LET before == MountPaths(mounts_cfg)
              after == MountPaths(mounts_cfg')
              real == RealPath(largs')
              covered == \E i \in 1..Len(before) : StartsWith(real, before[i])
              covers == \E i \in 1..Len(before) : StartsWith(before[i], real)
          IN /\ Linked(proj_files', largs')
             /\ status' = 0
             /\ (~covered /\ ~covers) => after = Append(before, real)
             /\ covered => Range(after) \subseteq Range(before)]_vars

\* a symlink load has just added the real path of its file to mounts.config
C8_PathGained ==
  /\ largs # NoLoad /\ largs.mode = "symlink" /\ status = 0 /\ loads >= 1
  /\ Linked(proj_files, largs)
  /\ MountPaths(mounts_cfg)[Len(MountPaths(mounts_cfg))] = RealPath(largs)
  /\ Len(MountPaths(mounts_cfg)) > Len(MountPaths(mk_mounts_cfg))

\* C9: a load whose name matches no file, or two files or more, ends with a
\* non-zero status and changes nothing in the project: no sub-directory, no
\* link, no copy, mounts.config as it was.
C9_RefusedUntouched ==
  [][Cardinality(Glob(largs'.file)) # 1
       => /\ status' # 0
          /\ UNCHANGED <<proj_files, proj_dirs, mounts_cfg>>]_vars

\* a load with two matches, into a sub-directory the project does not have,
\* has been refused after an earlier load succeeded
C9_AmbiguousRefused ==
  /\ largs # NoLoad /\ Cardinality(Glob(largs.file)) > 1
  /\ largs.sub_dir # <<>> /\ << <<largs.out_dir>>, largs.sub_dir >> \notin proj_dirs
  /\ status = 1 /\ loads >= 1

\* C10: a load whose destination exists already ends with status 0 and
\* changes nothing in the project.
C10_ExistingIsNoOp ==
  [][(Cardinality(Glob(largs'.file)) = 1 /\ Exists(proj_files, Dest(largs')))
       => /\ status' = 0
          /\ UNCHANGED <<proj_files, proj_dirs, mounts_cfg>>]_vars

(***************************************************************************)
(* main: project check, handler, audit log                                 *)
(***************************************************************************)
\* commands whose invocation dump_to_auto_raft appends to auto.raft
LoggedCommands == {"load-metadata", "load-reference", "load-module", "list-steps",
                   "update-mounts", "add-step", "update-modules", "clean-project"}
\* commands of the exclusion list that take a project identifier and are checked
UnloggedCommands == {"run-workflow", "package-project", "push-project"}
\* commands that line 2111 lets through without the project check
UncheckedCommands == {"init-project", "load-project", "copy-parameters"}
ProjectIds == {"", "p", "q"}
Argvs == [command : {"init-project"} \cup LoggedCommands \cup UnloggedCommands,
          project_id : ProjectIds]

\* ' '.join(sys.argv)
ArgLine(a) == <<"raft.py", a.command, "-p", a.project_id>>

\* os.path.isdir(pjoin(raft_cfg['filesystem']['projects'], id)): the empty
\* identifier names the projects directory itself
isdir(ps, id) == id = "" \/ id \in ps

\* lines 586-608 with os.makedirs(proj_dir, exist_ok=True)
mk_proj_dir_exist_ok(ps, proj_id) == Ok(ps \cup {proj_id})

mk_proj_dir(ps, proj_id) ==
  IF isdir(ps, proj_id) THEN SysExit ELSE Ok(ps \cup {proj_id})

\* open(auto_raft_file, 'w') and one line
mk_auto_raft(a, logs) ==
  [i \in DOMAIN logs \cup {a.project_id} |->
     IF i = a.project_id THEN <<ArgLine(a)>> ELSE logs[i]]

init_project(a, ps, logs) ==
  LET d == mk_proj_dir(ps, a.project_id)
  IN IF d.st # "ok"
     THEN [st |-> d.st, projects |-> ps, auto_raft |-> logs]
     ELSE [st |-> "ok", projects |-> d.val, auto_raft |-> mk_auto_raft(a, logs)]

\* what main leaves alone
MainFrame ==
  UNCHANGED <<main_nf, main_bak, wf_dir, pc, args, step_str, wf_mod_map, discoverd_steps,
              new_round_steps, final_steps, iter, all_step_params, hist, load_vars, mod_vars,
              mount_vars, run_vars, setup_vars, pkg_vars>>

\* lines 1916-1934 without the isdir test
chk_proj_id_exists_skipped(ps, id) == Ok(<<>>)

chk_proj_id_exists(ps, id) == IF isdir(ps, id) THEN Ok(<<>>) ELSE SysExit

\* lines 1249-1271 with open(auto_raft_path, 'w')
dump_to_auto_raft_truncating(a, ps, logs) ==
  IF a.command \notin LoggedCommands THEN Ok(logs)
  ELSE IF a.project_id \notin DOMAIN logs THEN Raised
  ELSE Ok([logs EXCEPT ![a.project_id] = <<ArgLine(a)>>])

\* open(auto_raft_path, 'a') needs <project>/.raft, which init_project makes
dump_to_auto_raft(a, ps, logs) ==
  IF a.command \notin LoggedCommands THEN Ok(logs)
  ELSE IF a.project_id \notin DOMAIN logs THEN Raised
  ELSE Ok([logs EXCEPT ![a.project_id] =
             Append(@, IF a.command = "add-step" THEN <<"#">> \o ArgLine(a) ELSE ArgLine(a))])

\* get_args and the project check of lines 2111-2114
MainStart(a) ==
  /\ main_pc = "idle"
  /\ cmds < MaxCmds
  /\ cmds' = cmds + 1
  /\ argv' = a
  /\ IF a.command \notin UncheckedCommands /\ chk_proj_id_exists(projects, a.project_id).st # "ok"
     THEN main_pc' = "idle" /\ status' = 1
     ELSE main_pc' = "handler" /\ status' = status
  /\ UNCHANGED <<projects, auto_raft>>
  /\ MainFrame

EndInitProject(r) ==
  /\ projects' = r.projects
  /\ auto_raft' = r.auto_raft
  /\ IF r.st = "ok" THEN main_pc' = "dump" /\ status' = status
                    ELSE main_pc' = "idle" /\ status' = 1

\* the dispatch of lines 2119-2157; a handler other than init_project either
\* returns or ends the process, and leaves the projects directory and the
\* audit logs as they are
MainHandler ==
  /\ main_pc = "handler"
  /\ IF argv.command = "init-project"
     THEN EndInitProject(init_project(argv, projects, auto_raft))
     ELSE /\ \E returns \in BOOLEAN :
               IF returns THEN main_pc' = "dump" /\ status' = status
                          ELSE main_pc' = "idle" /\ status' = 1
          /\ UNCHANGED <<projects, auto_raft>>
  /\ UNCHANGED <<argv, cmds>>
  /\ MainFrame

EndDump(r) ==
  /\ auto_raft' = (IF r.st = "ok" THEN r.val ELSE auto_raft)
  /\ status' = (IF r.st = "ok" THEN 0 ELSE 1)

\* line 2160
MainDump ==
  /\ main_pc = "dump"
  /\ EndDump(dump_to_auto_raft(argv, projects, auto_raft))
  /\ main_pc' = "idle"
  /\ UNCHANGED <<projects, argv, cmds>>
  /\ MainFrame

MainInit == InitAdd /\ InitLoad /\ main_nf = mk_main_wf /\ shared_cfg = "default" /\ IdleExt
MainNext ==
  \/ \E a \in Argvs : MainStart(a)
  \/ MainHandler
  \/ MainDump
MainSpec == MainInit /\ [][MainNext]_vars

(***************************************************************************)
(* Properties of main and init_project                                     *)
(***************************************************************************)
\* C11: when projects/<project_id> already exists (an earlier project of that
\* name, or the empty identifier), init_project exits with non-zero status
\* and leaves the projects directory and every audit log as they were.
C11_ExistingProjectRefused ==
  [][(main_pc = "handler" /\ argv.command = "init-project" /\ isdir(projects, argv.project_id))
       => /\ status' # 0
          /\ main_pc' = "idle"
          /\ UNCHANGED <<projects, auto_raft>>]_vars

\* a second init-project of a project that has logged a command was refused
C11_DuplicateRefused ==
  /\ main_pc = "idle"
  /\ argv.command = "init-project"
  /\ argv.project_id \in projects
  /\ Len(auto_raft[argv.project_id]) > 1
  /\ status # 0

\* C16: an audit log comes into being only by init_project, holding the init
\* invocation as its only line; afterwards a log changes only in the dump
\* step of a logged command on that project, after the handler has returned,
\* by exactly one line appended to unchanged earlier lines; a handler that
\* ends the process appends nothing.
C16_AuditLogAppendOnly ==
  [][/\ \A i \in DOMAIN auto_raft' \ DOMAIN auto_raft :
          /\ main_pc = "handler" /\ argv.command = "init-project" /\ argv.project_id = i
          /\ auto_raft'[i] = <<ArgLine(argv)>>
     /\ \A i \in DOMAIN auto_raft :
          /\ i \in DOMAIN auto_raft'
          /\ auto_raft'[i] # auto_raft[i] =>
               /\ main_pc = "dump" /\ argv.command \in LoggedCommands /\ argv.project_id = i
               /\ Len(auto_raft'[i]) = Len(auto_raft[i]) + 1
               /\ SubSeq(auto_raft'[i], 1, Len(auto_raft[i])) = auto_raft[i]
     /\ (main_pc = "dump" /\ argv.command \in LoggedCommands /\ argv.project_id \in projects)
          => /\ Len(auto_raft'[argv.project_id]) = Len(auto_raft[argv.project_id]) + 1
             /\ auto_raft'[argv.project_id][Len(auto_raft[argv.project_id]) + 1]
                  \in {ArgLine(argv), <<"#">> \o ArgLine(argv)}
     /\ (main_pc = "handler" /\ main_pc' = "idle") => UNCHANGED auto_raft]_vars

\* a project's log holds its init line and two logged commands, after a
\* third command on it ended in its handler
C16_TwoLoggedOneFailed ==
  /\ main_pc = "idle"
  /\ status # 0
  /\ argv.command \in LoggedCommands
  /\ argv.project_id \in projects
  /\ Len(auto_raft[argv.project_id]) = 3
  /\ auto_raft[argv.project_id][1] = ArgLine([command |-> "init-project", project_id |-> argv.project_id])

\* C17: a command subject to the project check, given an identifier whose
\* directory does not exist, ends with non-zero status without entering its
\* handler, and neither a project directory nor an audit-log line is made.
C17_MissingProjectRefused ==
  [][(main_pc = "idle" /\ cmds' # cmds /\ argv'.command \notin UncheckedCommands
        /\ ~isdir(projects, argv'.project_id))
       => /\ status' # 0
          /\ main_pc' = "idle"
          /\ UNCHANGED <<projects, auto_raft>>]_vars

\* a logged command on a project that was never made was refused while
\* another project exists
C17_RefusedBesideAnother ==
  /\ main_pc = "idle"
  /\ status # 0
  /\ argv.command \in LoggedCommands
  /\ ~isdir(projects, argv.project_id)
  /\ projects # {}
  /\ cmds > 1

(***************************************************************************)
(* load_module and recurs_load_modules                                     *)
(***************************************************************************)
Mods == {"A", "B", "C"}
ModOrder == <<"A", "B", "C">>
\* raft_cfg['nextflow_subgroups']['nextflow_module_subgroups'] as setup writes it
nextflow_module_subgroups == <<"Tools", "Projects", "Datasets">>
\* the repositories of each subgroup; no subgroup holds module Z
Hosted(subgroup) ==
  CASE subgroup = "Tools" -> {"A", "C"}
    [] subgroup = "Projects" -> {"B"}
    [] subgroup = "Datasets" -> {"C"}

\* what the module files include: any modules for A and B, nothing or A for C
IncludeGraphs == {g \in [Mods -> SUBSET Mods] : g["C"] \subseteq {"A"}}

\* path components: a directory, or a file with the extension .nf
Dir(n) == [name |-> n, ext |-> ""]
NfFile(n) == [name |-> n, ext |-> ".nf"]
\* the path that ends an include line of a module file, split at '/'
IncludePath(d) == <<Dir(".."), Dir(d), NfFile(d)>>
TestsInclude == <<Dir("."), NfFile("tests")>>
IncludeOf(ds, d) == IF d \in ds THEN <<IncludePath(d)>> ELSE <<>>
IncludesOf(ds) == IncludeOf(ds, ModOrder[1]) \o IncludeOf(ds, ModOrder[2]) \o IncludeOf(ds, ModOrder[3])
\* <module>/<module>.nf: the include lines of a module that includes ds;
\* each module is included for two of its names
IncludeLines(ds) == <<TestsInclude>> \o IncludesOf(ds) \o IncludesOf(ds)

\* lines 836-844: dep = path.split('/')[1], kept when it is not yet in deps
\* and does not end in .nf; so the first line of each such dep gives it
ScanIncludes(lines) ==
  LET dep(i) == lines[i][2]
      Kept(i) == dep(i).ext # ".nf" /\ \A j \in 1..(i - 1) : dep(j) # dep(i)
      Name(i) == dep(i).name
      KeptUpTo(i) == {j \in 1..i : Kept(j)}
  IN [k \in 1..Cardinality(KeptUpTo(Len(lines))) |->
        Name(CHOOSE i \in 1..Len(lines) : Kept(i) /\ Cardinality(KeptUpTo(i)) = k)]

\* lines 955-963: one clone attempt per configured subgroup; a clone into
\* the directory an earlier attempt has made fails
RECURSIVE CloneLoop(_, _, _)
CloneLoop(module, subgroups, found) ==
  IF subgroups = <<>> THEN <<>>
  ELSE LET ok == module \in Hosted(Head(subgroups)) /\ ~found
       IN <<[subgroup |-> Head(subgroups), module |-> module, ok |-> ok]>>
            \o CloneLoop(module, Tail(subgroups), found \/ ok)

Found(attempts) == \E i \in 1..Len(attempts) : attempts[i].ok

LoadFrame == [fn |-> "load_module", deps |-> <<>>, i |-> 0, new_deps |-> 0]
WhileFrame == [fn |-> "while", deps |-> <<>>, i |-> 0, new_deps |-> 1]
Top == stack[Len(stack)]
Below == SubSeq(stack, 1, Len(stack) - 1)

\* line 831 with new_deps set for every dependency
NewDeps_Always(dep, present, new_deps) == 1

\* lines 847-848
NewDeps(dep, present, new_deps) == IF dep \notin present THEN 1 ELSE new_deps

ModFrame ==
  UNCHANGED <<main_nf, main_bak, wf_dir, pc, args, step_str, wf_mod_map, discoverd_steps,
              new_round_steps, final_steps, iter, all_step_params, hist, load_vars, main_vars,
              mount_vars, run_vars, setup_vars, pkg_vars>>

\* the frame on top returns; the command ends with status 0 when it was the last
Return ==
  /\ stack' = Below
  /\ status' = (IF Len(stack) = 1 THEN 0 ELSE status)

\* main: load-module -m module [--no-deps]
LoadModuleStart(module, no_deps) ==
  /\ stack = <<>>
  /\ mloads < MaxModLoads
  /\ mloads' = mloads + 1
  /\ mod_args' = [module |-> module, no_deps |-> no_deps]
  /\ stack' = <<LoadFrame>>
  /\ UNCHANGED <<remote, workflow_dir, clone_log, status>>
  /\ ModFrame

\* lines 953-980 after the subgroup loop has made attempts
EndClone(attempts) ==
  /\ clone_log' = Append(clone_log, attempts)
  /\ IF ~Found(attempts)
     THEN stack' = <<>> /\ status' = 1 /\ workflow_dir' = workflow_dir
     ELSE /\ workflow_dir' = workflow_dir \cup {mod_args.module}
          /\ IF mod_args.no_deps THEN Return
             ELSE stack' = Append(Below, WhileFrame) /\ status' = status

\* lines 932-980 up to the call of recurs_load_modules
LoadModule ==
  /\ stack # <<>>
  /\ Top.fn = "load_module"
  /\ IF mod_args.module \notin workflow_dir
     THEN EndClone(CloneLoop(mod_args.module, nextflow_module_subgroups, FALSE))
     ELSE /\ IF mod_args.no_deps THEN Return
             ELSE stack' = Append(Below, WhileFrame) /\ status' = status
          /\ UNCHANGED <<workflow_dir, clone_log>>
  /\ UNCHANGED <<remote, mod_args, mloads>>
  /\ ModFrame

\* lines 832-845: the test of the while loop and the scan of <args.module>.nf;
\* without such a file deps keeps its value, and is unbound in the first pass
RecursWhile ==
  /\ stack # <<>>
  /\ Top.fn = "while"
  /\ IF Top.new_deps # 1 THEN Return
     ELSE IF mod_args.module \in workflow_dir
     THEN /\ stack' = Append(Below, [fn |-> "for", i |-> 1, new_deps |-> 0,
                                     deps |-> ScanIncludes(IncludeLines(remote[mod_args.module]))])
          /\ status' = status
     ELSE IF Top.i = 0 THEN stack' = <<>> /\ status' = 1
     ELSE stack' = Append(Below, [Top EXCEPT !.fn = "for", !.i = 1, !.new_deps = 0]) /\ status' = status
  /\ UNCHANGED <<remote, workflow_dir, mod_args, clone_log, mloads>>
  /\ ModFrame

\* lines 846-852: one dependency of the for loop
RecursFor ==
  /\ stack # <<>>
  /\ Top.fn = "for"
  /\ IF Top.i > Len(Top.deps)
     THEN stack' = Append(Below, [Top EXCEPT !.fn = "while"]) /\ mod_args' = mod_args
     ELSE LET dep == Top.deps[Top.i]
              next == [Top EXCEPT !.i = @ + 1, !.new_deps = NewDeps(dep, workflow_dir, @)]
          IN IF dep \notin workflow_dir
             THEN /\ mod_args' = [mod_args EXCEPT !.module = dep]
                  /\ stack' = Append(Below, next) \o <<LoadFrame>>
             ELSE /\ mod_args' = mod_args
                  /\ stack' = Append(Below, next)
  /\ UNCHANGED <<remote, workflow_dir, clone_log, mloads, status>>
  /\ ModFrame

ModInit ==
  /\ InitAdd /\ InitLoad /\ main_nf = mk_main_wf /\ shared_cfg = "default" /\ IdleMain /\ IdleMount /\ IdleRun
  /\ IdleSetup /\ IdlePkg
  /\ remote \in IncludeGraphs
  /\ workflow_dir = {} /\ mod_args = NoModule
  /\ stack = <<>> /\ clone_log = <<>> /\ mloads = 0
ModStep == LoadModule \/ RecursWhile \/ RecursFor
ModNext ==
  \/ \E module \in Mods \cup {"Z"}, no_deps \in BOOLEAN : LoadModuleStart(module, no_deps)
  \/ LoadModule
  \/ RecursWhile
  \/ RecursFor
ModSpec == ModInit /\ [][ModNext]_vars
\* a started command keeps running until its process ends
ModLiveSpec == ModSpec /\ WF_vars(ModStep)

(***************************************************************************)
(* Properties of load_module                                               *)
(***************************************************************************)
\* C12: in every run of the subgroup loop the subgroups are tried in their
\* configured order and no clone is attempted after one that succeeded.
C12_StopAtFirstSuccess ==
  \A c \in 1..Len(clone_log) :
    /\ \A i \in 1..Len(clone_log[c]) :
         clone_log[c][i].subgroup = nextflow_module_subgroups[i]
    /\ \A i, j \in 1..Len(clone_log[c]) : i < j => ~clone_log[c][i].ok

Clones(module) ==
  {ci \in (1..Len(clone_log)) \X (1..Len(nextflow_module_subgroups)) :
     /\ ci[2] <= Len(clone_log[ci[1]])
     /\ clone_log[ci[1]][ci[2]].module = module
     /\ clone_log[ci[1]][ci[2]].ok}

\* C13: whatever the modules include, a load-module command that has started
\* ends, and no module is ever cloned twice.
C13_TerminatesWithoutDoubleClone ==
  /\ [](\A m \in Mods : Cardinality(Clones(m)) <= 1)
  /\ (stack # <<>>) ~> (stack = <<>>)

\* one command has ended well after cloning two modules that include each other
C13_CycleLoaded ==
  /\ stack = <<>> /\ status = 0 /\ mloads = 1
  /\ "A" \in remote["B"] /\ "B" \in remote["A"]
  /\ Cardinality(Clones("A")) = 1 /\ Cardinality(Clones("B")) = 1

\* C14: when a load-module with dependency loading has ended well, every
\* module that a present module includes is present.
C14_DependencyClosure ==
  (stack = <<>> /\ mloads > 0 /\ status = 0 /\ ~mod_args.no_deps)
    => \A m \in workflow_dir : remote[m] \subseteq workflow_dir

(***************************************************************************)
(* update_mounts                                                           *)
(***************************************************************************)
\* os.path.dirname of a path string: what stands before its last '/'
DirName(str) ==
  LET last == CHOOSE i \in 1..Len(str) : str[i] = "/" /\ \A j \in (i + 1)..Len(str) : str[j] # "/"
  IN SubSeq(str, 1, last - 1)

\* the project directory, and a path below it as an absolute path string
ProjectPath(rel) == PathStr(projects_dir \o << <<project_id>> >> \o rel)

\* lines 722-724: dirname(realpath(fle)) for the files and directories that
\* glob finds below <project>/<dir>
RealDirs(dir, files, dirs) ==
  {IF f.kind = "symlink" THEN DirName(f.target) ELSE DirName(ProjectPath(f.path)) :
     f \in {e \in files : e.path[1] = <<dir>>}}
    \cup {DirName(ProjectPath(d)) : d \in {e \in dirs : e[1] = <<dir>>}}

\* update-mounts -d <project>/<dir>; order is the order list(set(...)) gives
update_mounts(dir, order) ==
  /\ umounts < MaxUpdates
  /\ umounts' = umounts + 1
  /\ Range(order) = RealDirs(dir, proj_files, proj_dirs)
  /\ bound_dirs' = order
  /\ mounts_cfg' = (IF order # <<>> THEN update_mounts_cfg(mounts_cfg, order) ELSE mounts_cfg)
  /\ status' = 0
  /\ UNCHANGED <<proj_files, proj_dirs, shared_cfg, largs, loads>>
  /\ UNCHANGED <<main_nf, main_bak, wf_dir, pc, args, step_str, wf_mod_map,
                 discoverd_steps, new_round_steps, final_steps, iter, all_step_params, hist>>
  /\ UNCHANGED <<main_vars, mod_vars, run_vars, setup_vars, pkg_vars>>

DirOrders(dir) == GlobOrders(RealDirs(dir, proj_files, proj_dirs))

MountNext ==
  \/ \E a \in LoadRequests : load_files(a)
  \/ \E dir \in {"references", "metadata"} : \E order \in DirOrders(dir) : update_mounts(dir, order)
MountSpec == LoadInit /\ [][MountNext]_vars

(***************************************************************************)
(* Properties of the mounts manifest                                       *)
(***************************************************************************)
\* the paths that a manifest lists, and what they cover
Entries(content) == {e \in Range(MountPaths(content)) : e # <<>>}
CoveredBy(path, content) == \E e \in Entries(content) : StartsWith(path, e)

\* C15: every update of the manifest keeps each listed path covered, and
\* leaves each requested bind directory (for a symlink load, the real path
\* of the file) covered.
C15_Additive ==
  [][/\ \A e \in Entries(mounts_cfg) : CoveredBy(e, mounts_cfg')
     /\ umounts' # umounts => \A i \in 1..Len(bound_dirs') : CoveredBy(bound_dirs'[i], mounts_cfg')
     /\ (loads' # loads /\ largs'.mode = "symlink") => CoveredBy(RealPath(largs'), mounts_cfg')]_vars

(***************************************************************************)
(* run_workflow                                                            *)
(***************************************************************************)
\* line 1047
reports == {"report.html", "timeline.html", "dag.dot", "trace.txt"}

\* lines 1016-1021: shutil.rmtree of <project>/outputs
RemoveOutputs(a, out) ==
  IF a.keep_previous_outputs THEN out
  ELSE [exists |-> FALSE, reports_dir |-> FALSE, reports |-> {}]

\* lines 1016-1053 as a function of the arguments, of what the engine does
\* and of the directories: exit status, logs and outputs afterwards.
\* os.makedirs raises FileExistsError when outputs/reports is there.
run_workflow_result(a, nf, lgs, out) ==
  LET kept == RemoveOutputs(a, out)
      in_logs == lgs \cup nf.written
  IN IF nf.returncode # 0 \/ a.no_reports
     THEN [status |-> 0, logs |-> in_logs, outputs |-> kept]
     ELSE IF kept.reports_dir
     THEN [status |-> 1, logs |-> in_logs, outputs |-> kept]
     ELSE [status |-> 0, logs |-> in_logs \ reports,
           outputs |-> [exists |-> TRUE, reports_dir |-> TRUE,
                        reports |-> in_logs \cap reports]]

EndRun(r) ==
  /\ status' = r.status
  /\ logs_dir' = r.logs
  /\ outputs' = r.outputs

\* run-workflow; the engine writes its reports into logs unless --no-reports
run_workflow(a, nf) ==
  /\ runs < MaxRuns
  /\ runs' = runs + 1
  /\ a.no_reports => nf.written = {}
  /\ run_args' = a
  /\ engine' = nf
  /\ EndRun(run_workflow_result(a, nf, logs_dir, outputs))
  /\ UNCHANGED <<main_nf, main_bak, wf_dir, pc, args, step_str, wf_mod_map, discoverd_steps,
                 new_round_steps, final_steps, iter, all_step_params, hist, load_vars>>
  /\ UNCHANGED <<main_vars, mod_vars, mount_vars, setup_vars, pkg_vars>>

RunArgs == [keep_previous_outputs : BOOLEAN, no_reports : BOOLEAN]
EngineRuns == [returncode : {0, 1}, written : SUBSET {"report.html", "trace.txt"}]

RunInit == InitAdd /\ InitLoad /\ main_nf = mk_main_wf /\ shared_cfg = "default" /\ IdleExt
RunNext == \E a \in RunArgs, nf \in EngineRuns : run_workflow(a, nf)
RunSpec == RunInit /\ [][RunNext]_vars

(***************************************************************************)
(* Properties of run_workflow                                              *)
(***************************************************************************)
\* C18: after a non-zero engine exit run-workflow ends with status 0, every
\* report stays in logs and no outputs/reports directory is made; after a
\* zero exit with reports enabled every report file in logs has been moved
\* to outputs/reports.
C18_ReportsMoved ==
  [][runs' # runs =>
       /\ engine'.returncode # 0 =>
            /\ status' = 0
            /\ logs_dir' = logs_dir \cup engine'.written
            /\ outputs'.reports_dir => (outputs.reports_dir /\ run_args'.keep_previous_outputs)
       /\ (engine'.returncode = 0 /\ ~run_args'.no_reports) =>
            /\ logs_dir' \cap reports = {}
            /\ (logs_dir \cup engine'.written) \cap reports \subseteq outputs'.reports]_vars

(***************************************************************************)
(* setup                                                                   *)
(***************************************************************************)
\* what the user answers at the prompts of get_user_raft_paths and
\* get_user_nf_repos; the empty answer keeps the default.  /ext exists,
\* /none does not.
SetupArgs ==
  [default : {TRUE}, projects : {""}, references : {""}, subgroups : {""}]
    \cup [default : {FALSE}, projects : {"", "/ext/projects", "/none/projects"},
          references : {"", "/ext/references"}, subgroups : {"", "Tools,Mine"}]

Answer(a, given, default) == IF ~a.default /\ given # "" THEN given ELSE default

\* lines 292-297, 352 and 368-377
master_cfg(a) ==
  [filesystem |-> [projects |-> Answer(a, a.projects, "cwd/projects"),
                   references |-> Answer(a, a.references, "cwd/references")],
   nextflow_subgroups |-> Answer(a, a.subgroups, "Tools,Projects,Datasets")]

\* lines 458-477: os.mkdir of a directory whose parent does not exist raises
setup_run_once(cfg) == IF cfg.filesystem.projects = "/none/projects" THEN Raised ELSE Ok(<<>>)

\* lines 356-385 without the os.rename of line 364
setup_without_backup(a, cfg, orig) ==
  [status |-> IF setup_run_once(master_cfg(a)).st = "ok" THEN 0 ELSE 1,
   raft_cfg |-> master_cfg(a),
   raft_cfg_orig |-> orig]

\* lines 356-385: the backup, dump_cfg, setup_run_once
setup_result(a, cfg, orig) ==
  [status |-> IF setup_run_once(master_cfg(a)).st = "ok" THEN 0 ELSE 1,
   raft_cfg |-> master_cfg(a),
   raft_cfg_orig |-> IF cfg # Absent THEN cfg ELSE orig]

EndSetup(r) ==
  /\ status' = r.status
  /\ raft_cfg' = r.raft_cfg
  /\ raft_cfg_orig' = r.raft_cfg_orig

setup(a) ==
  /\ setups < MaxSetups
  /\ setups' = setups + 1
  /\ setup_args' = a
  /\ EndSetup(setup_result(a, raft_cfg, raft_cfg_orig))
  /\ UNCHANGED <<main_nf, main_bak, wf_dir, pc, args, step_str, wf_mod_map, discoverd_steps,
                 new_round_steps, final_steps, iter, all_step_params, hist, load_vars>>
  /\ UNCHANGED <<main_vars, mod_vars, mount_vars, run_vars, pkg_vars>>

\* a directory in which RAFT has not been set up yet
SetupInit ==
  /\ InitAdd /\ InitLoad /\ main_nf = mk_main_wf /\ shared_cfg = "default"
  /\ IdleMain /\ IdleMod /\ IdleMount /\ IdleRun /\ IdlePkg
  /\ setup_args = NoSetup /\ raft_cfg = Absent /\ raft_cfg_orig = Absent /\ setups = 0
SetupNext == \E a \in SetupArgs : setup(a)
SetupSpec == SetupInit /\ [][SetupNext]_vars

(***************************************************************************)
(* Properties of setup                                                     *)
(***************************************************************************)
\* C19: a setup that finds .raft.cfg leaves its content in .raft.cfg.orig
\* and writes the new configuration to .raft.cfg; from the second setup on
\* both files exist.
C19_BackupKept ==
  [][setups' # setups =>
       /\ raft_cfg # Absent => raft_cfg_orig' = raft_cfg
       /\ raft_cfg' = master_cfg(setup_args') /\ raft_cfg' # Absent
       /\ setups' >= 2 => raft_cfg_orig' # Absent]_vars

\* a third setup ended in setup_run_once, after two setups with other answers
C19_ThirdSetupDied ==
  /\ setups = 3
  /\ status # 0
  /\ raft_cfg_orig # Absent
  /\ raft_cfg_orig # raft_cfg
  /\ raft_cfg_orig # DefaultCfg

(***************************************************************************)
(* Properties of add-step: the call string                                 *)
(***************************************************************************)
\* the call string that the last add-step generated for its step
ThisCallStr == step_str_of(args, ArgsSlice.val)

\* C20: an add-step whose generated call string is the one an earlier
\* successful add-step has written into main.nf ends with non-zero status,
\* whether or not its inclusion statement is in main.nf.
C20_DuplicateCallRejected ==
  (/\ Finished /\ ArgsSlice.st = "ok" /\ ThisCallStr.st = "ok"
   /\ \E i \in 1..Len(PriorHist) : PriorHist[i].step_str = ThisCallStr.val)
    => status # 0

(***************************************************************************)
(* Where add_step inserts (lines 1646-1658).                               *)
(***************************************************************************)
\* the rows of main.nf between a heading row and the first stop row after it
SectionOf(content, section, stop) ==
  LET rows == ReadLines(content)
      start == IndexOf(rows, section)
      end == IndexFrom(rows, stop, start)
  IN IF start = 0 \/ end = 0 THEN <<>> ELSE SubSeq(rows, start + 1, end - 1)

InclusionsSection == SectionOf(main_nf, InclusionsMarker, <<NL>>)

\* C21 as stated: after a successful add-step the inclusion statement of the
\* call is the row that immediately follows the /*Inclusions*/ marker row.
C21_InclusionFollowsMarker ==
  (Finished /\ status = 0)
    => (InclusionsSection # <<>> /\ InclusionsSection[1] = inclusion_str_of(args))

\* C21 amended: after a successful add-step the inclusion statement of the
\* call is the last row of the inclusions section, immediately before the
\* first blank row that follows the marker: the section lists the inclusion
\* statements of the successful add-steps in the order of the calls.
C21_InclusionEndsSection ==
  (Finished /\ status = 0)
    => /\ InclusionsSection = [i \in 1..Len(hist) |-> inclusion_str_of(hist[i].args)]
       /\ InclusionsSection[Len(InclusionsSection)] = inclusion_str_of(args)

\* a second successful add-step on the same main.nf
C21_SecondInclusion ==
  /\ Finished /\ status = 0 /\ Len(hist) = 2
  /\ InclusionsSection[2] = inclusion_str_of(args)
  /\ InclusionsSection[1] # inclusion_str_of(args)

WorkflowSection == SectionOf(main_nf, WorkflowOpen, WorkflowClose)
\* the row that ends the workflow block, and what follows it
AfterWorkflowSection ==
  LET rows == ReadLines(main_nf)
      start == IndexOf(rows, WorkflowOpen)
  IN SubSeq(rows, start + 1 + Len(WorkflowSection), Len(rows))

\* the rows of the calls that the successful add-steps wrote, in their order
RECURSIVE CallRows(_)
CallRows(h) ==
  IF h = <<>> THEN <<>>
  ELSE CallRows(SubSeq(h, 1, Len(h) - 1)) \o ReadLines(CallBlock(h[Len(h)].step_str))

\* C22: each successful add-step inserts the call of its step immediately
\* before the closing } row of the workflow block: at every moment the rows
\* of the block are the calls of the successful add-steps in the order in
\* which the steps were added, and the } row that closes the block is the
\* row after them (and the last row of main.nf).
C22_CallBeforeClose ==
  /\ WorkflowSection = CallRows(hist)
  /\ AfterWorkflowSection = <<WorkflowClose>>

\* two successful add-steps: the call of the second follows that of the first
C22_TwoCallsInOrder ==
  /\ Len(hist) = 2 /\ pc = "idle" /\ status = 0
  /\ hist[1].step_str # hist[2].step_str
  /\ WorkflowSection = ReadLines(CallBlock(hist[1].step_str))
                         \o ReadLines(CallBlock(hist[2].step_str))
  /\ AfterWorkflowSection = <<WorkflowClose>>

\* C23: every add-step call overwrites main.nf.bak with the content main.nf
\* has when the call starts, whether the call later succeeds or ends in a
\* fatal error (a call that dies in its first step included), and the rest of
\* the call leaves main.nf.bak alone.
C23_BackupAtStart ==
  [][/\ pc = "idle" => main_bak' = main_nf
     /\ pc # "idle" => main_bak' = main_bak]_vars

\* an add-step that died because its module is not loaded, after another one
\* had changed main.nf: the backup is the main.nf that the failed call found
C23_BackupOfFailedCall ==
  /\ Finished /\ status # 0 /\ ArgsSlice.st # "ok"
  /\ Len(hist) = 1 /\ main_nf # mk_main_wf
  /\ main_bak = main_nf

\* the alias that an inclusion statement declares (line 1589), and the name
\* that a call string invokes (lines 1608-1610, 1658)
DeclaredAlias(inclusion_str) ==
  PartitionHead(PartitionTail(inclusion_str, " as "), " } from './")
InvokedName(str) == PartitionHead(str, "(")

\* C26: after a successful add-step with an alias, the name invoked by the
\* call that it inserted is the alias declared by the inclusion statement
\* that it inserted, for every step name and alias, an alias that contains
\* the step name (step foo, alias foo2) included.
C26_CallInvokesAlias ==
  (Finished /\ status = 0 /\ args.alias # NoAlias)
    => /\ In(inclusion_str_of(args), ReadLines(main_nf))
       /\ In(InvokedName(hist[Len(hist)].step_str) \o <<"(", NL>>, WorkflowSection)
       /\ InvokedName(hist[Len(hist)].step_str) = DeclaredAlias(inclusion_str_of(args))

\* the parameters that the definition of a step in a module file requires
\* (extract_params_from_contents of line 1637 applied to that definition)
ParamsOfDefinition(module, step) ==
  LET sl == extract_step_slice_from_nfscript(module \in wf_dir, module, step)
  IN IF sl.st = "ok" /\ HasWorkflow(sl.val[1])
     THEN Range(extract_params_from_contents(sl.val, FALSE).val)
     ELSE {}
DefinesWorkflow(module, step) ==
  LET sl == extract_step_slice_from_nfscript(module \in wf_dir, module, step)
  IN sl.st = "ok" /\ HasWorkflow(sl.val[1])

\* C27: when two loaded modules both define a workflow of the name given, a
\* successful add-step (without alias) declares the parameters of the
\* definition in the module given and none that only the definition in the
\* other module requires, whichever file get_wf_mod_map recorded for the name.
C27_ParamsOfGivenModule ==
  \A other \in wf_dir :
    (/\ Finished /\ status = 0 /\ args.alias = NoAlias
     /\ other # args.module
     /\ DefinesWorkflow(args.module, args.step)
     /\ DefinesWorkflow(other, args.step))
      => /\ ParamsOfDefinition(args.module, args.step) \subseteq DeclaredBy(hist[Len(hist)])
         /\ (ParamsOfDefinition(other, args.step) \ ParamsOfDefinition(args.module, args.step))
               \cap DeclaredBy(hist[Len(hist)]) = {}

(***************************************************************************)
(* add-step on a main.nf that init-project has made from the template and  *)
(* that only add-step has changed since.                                   *)
(***************************************************************************)
TplInit == Init /\ main_nf = mk_main_wf
TplSpec == TplInit /\ [][Next]_vars

\* the 0-based index at which add_step would insert in a section of main.nf
InsertIdx(rows, section, stop) == get_section_insert_idx(rows, section, stop)
\* the 0-based index of a row of main.nf (-1 when it has no such row)
RowIdx(rows, row) == IndexOf(rows, row) - 1

SectionsKeptIn(rows) ==
  /\ Count(rows, ParametersMarker) = 1
  /\ Count(rows, InclusionsMarker) = 1
  /\ Count(rows, WorkflowOpen) = 1
  /\ 0 <= RowIdx(rows, ParametersMarker)
  /\ RowIdx(rows, ParametersMarker) < InsertIdx(rows, ParametersMarker, <<NL>>)
  /\ InsertIdx(rows, ParametersMarker, <<NL>>) < RowIdx(rows, InclusionsMarker)
  /\ RowIdx(rows, InclusionsMarker) < InsertIdx(rows, InclusionsMarker, <<NL>>)
  /\ InsertIdx(rows, InclusionsMarker, <<NL>>) < RowIdx(rows, WorkflowOpen)
  /\ RowIdx(rows, WorkflowOpen) < InsertIdx(rows, WorkflowOpen, WorkflowClose)

\* C30: over any sequence of add-step calls on a main.nf made from the
\* template, main.nf keeps exactly one /*Parameters*/ row, one /*Inclusions*/
\* row and one `workflow {` row, in that order, each followed by the row that
\* ends its section (a blank row before the next of the three, a } row for
\* the workflow block), so that get_section_insert_idx finds an index for
\* each of the three sections.
C30_SectionsKept == SectionsKeptIn(ReadLines(main_nf))

\* a second successful add-step on a main.nf made from the template: a
\* workflow under an alias, then a process
C30_AfterTwoAdds ==
  /\ Len(hist) = 2 /\ Finished /\ status = 0
  /\ hist[1].args.alias # NoAlias /\ hist[2].args.step = pr
  /\ InsertIdx(ReadLines(main_nf), ParametersMarker, <<NL>>)
       > InsertIdx(ReadLines(mk_main_wf), ParametersMarker, <<NL>>) + 1

\* C28: update_mounts_cfg is idempotent: whenever update-mounts, or a load
\* in symlink mode, has rewritten the manifest for a list of bind
\* directories, applying the same update to the manifest it left gives that
\* manifest again.
C28_UpdateIdempotent ==
  [][/\ (umounts' # umounts /\ bound_dirs' # <<>>)
          => update_mounts_cfg(mounts_cfg', bound_dirs') = mounts_cfg'
     /\ (loads' # loads /\ largs'.mode = "symlink" /\ mounts_cfg' # mounts_cfg)
          => update_mounts_cfg(mounts_cfg', <<RealPath(largs')>>) = mounts_cfg']_vars

(***************************************************************************)
(* snapshot_postproc (lines 1274-1297), which package_project applies to   *)
(* a copy of auto.raft (lines 1351-1355).  A row of the audit log is a     *)
(* command line: words separated by single blanks, then a newline.         *)
(***************************************************************************)
MaxLog == 3

InitProjectRow == <<"raft.py", " ", "init-project", " ", "-p", " ", "p", NL>>
AddStepRow == <<"raft.py", " ", "add-step", " ", "-m", " ", "m1", NL>>
RunRow == <<"raft.py", " ", "run-workflow", " ", "-n=", "-resume", NL>>
RunProfileRow == <<"raft.py", " ", "run-workflow", " ", "-n=", "-profile", " ", "x", NL>>
LogRows == {InitProjectRow, AddStepRow, RunRow, RunProfileRow}
AuditLogs == UNION {[1..n -> LogRows] : n \in 0..MaxLog}

\* re.search("run-workflow", line), re.search('-profile', line)
MentionsRun(line) == In("run-workflow", line)
MentionsProfile(line) == In("-profile", line)

\* line.split(' ')
RECURSIVE SplitBlank(_)
SplitBlank(line) ==
  LET i == IndexOf(line, " ")
  IN IF i = 0 THEN <<line>>
     ELSE <<SubSeq(line, 1, i - 1)>> \o SplitBlank(SubSeq(line, i + 1, Len(line)))

\* lines 1291-1295: the word after the first one that mentions -profile
PlaceProfile(line) ==
  LET spl == SplitBlank(line)
      ind == CHOOSE i \in 1..Len(spl) :
               MentionsProfile(spl[i]) /\ \A j \in 1..(i - 1) : ~MentionsProfile(spl[j])
  IN IF ind + 1 > Len(spl) THEN Raised
     ELSE Ok(Join(<<" ">>, [spl EXCEPT ![ind + 1] = <<"RAFT_PROFILE_PLACEHOLDER">>]))

\* lines 1288-1295: what the last row becomes when it mentions run-workflow
LastRunRow(line0) ==
  LET line == Replace(Strip(line0), <<"-n=">>, <<"-n=", "\"">>)
  IN IF MentionsProfile(line) THEN PlaceProfile(line) ELSE Ok(line)

\* lines 1284-1296: what one pass of the loop appends to new_contents
AppendedFor(contents, line_idx) ==
  LET line == contents[line_idx]
      closed(l) == l \o <<"\"", NL>>
  IN IF ~MentionsRun(line) THEN Ok(<<line, closed(line)>>)
     ELSE IF line_idx = Len(contents)
     THEN (IF LastRunRow(line).st = "ok" THEN Ok(<<closed(LastRunRow(line).val)>>) ELSE Raised)
     ELSE Ok(<<closed(line)>>)

\* the rows of the file written (lines 1297-1298), or how the process dies
snapshot_postproc(contents) ==
  LET parts == [i \in 1..Len(contents) |-> AppendedFor(contents, i)]
  IN IF \E i \in 1..Len(parts) : parts[i].st # "ok" THEN Raised
     ELSE Ok(ReadLines(Concat(Concat([i \in 1..Len(parts) |-> parts[i].val]))))

EndSnapshot(r) ==
  /\ snap_out' = r.val
  /\ status' = IF r.st = "ok" THEN 0 ELSE 1

SnapshotPostproc ==
  /\ ~snap_done
  /\ snap_done' = TRUE
  /\ EndSnapshot(snapshot_postproc(snap_in))
  /\ UNCHANGED <<snap_in, exp_in, exp_out, exp_done, lp_archive, lp_files, lp_pc>>
  /\ UNCHANGED <<main_nf, main_bak, wf_dir, pc, args, step_str, wf_mod_map, discoverd_steps,
                 new_round_steps, final_steps, iter, all_step_params, hist, load_vars>>
  /\ UNCHANGED <<main_vars, mod_vars, mount_vars, run_vars, setup_vars>>

SnapInit ==
  /\ InitAdd /\ InitLoad /\ main_nf = mk_main_wf /\ shared_cfg = "default"
  /\ IdleMain /\ IdleMod /\ IdleMount /\ IdleRun /\ IdleSetup
  /\ snap_in \in AuditLogs /\ snap_out = <<>> /\ snap_done = FALSE
  /\ exp_in = <<>> /\ exp_out = <<>> /\ exp_done = FALSE
  /\ lp_archive = {} /\ lp_files = <<>> /\ lp_pc = "idle"
SnapNext == SnapshotPostproc
SnapSpec == SnapInit /\ [][SnapNext]_vars

\* C25: the file that snapshot_postproc writes holds each row of the log
\* that does not mention run-workflow exactly once and in the order of the
\* log, and at most one row that mentions run-workflow: its last row, made
\* from the last row of the log when that one mentions run-workflow.
C25_OneRunRowKept ==
  snap_done =>
    /\ status = 0
    /\ FilterSeq(LAMBDA l : l \in Range(snap_in) /\ ~MentionsRun(l), snap_out)
         = FilterSeq(LAMBDA l : ~MentionsRun(l), snap_in)
    /\ \A i \in 1..Len(snap_out) :
         MentionsRun(snap_out[i])
           => (i = Len(snap_out) /\ snap_in # <<>> /\ MentionsRun(snap_in[Len(snap_in)]))

(***************************************************************************)
(* expand_params (.script/raft.py lines 1960-2002), which that version of  *)
(* add_step applies to the parameters of a step (line 1916).  A parameter  *)
(* is params.t1$...$tn$leaf; the dict is a list of <<key, value>> pairs in *)
(* the order of insertion.                                                 *)
(***************************************************************************)
MaxTiers == 2
MaxParams == 2

\* a tier may bear the name of a leaf
Tiers == {<<"a">>, <<"u">>}
Leaves == {<<"u">>, <<"v">>}
\* 'params.' + '$'.join(parts)
Key(parts) == <<"params.">> \o Join(<<"$">>, parts)
ParamParts ==
  {q \in UNION {[1..(n + 1) -> Tiers \cup Leaves] : n \in 0..MaxTiers} :
     q[Len(q)] \in Leaves /\ \A i \in 1..(Len(q) - 1) : q[i] \in Tiers}
Params == {Key(q) : q \in ParamParts}
ParamLists == UNION {[1..n -> Params] : n \in 0..MaxParams}

\* param.partition('.')[2]: what follows the first dot, that of `params.`
AfterDot(param) == Tail(param)
\* param.split('$')
RECURSIVE SplitDollar(_)
SplitDollar(s) ==
  LET i == IndexOf(s, "$")
  IN IF i = 0 THEN <<s>>
     ELSE <<SubSeq(s, 1, i - 1)>> \o SplitDollar(SubSeq(s, i + 1, Len(s)))

EmptyLiteral == <<"''">>
\* d[k] = v: a key that the dict holds keeps its place
DictSet(d, k, v) ==
  IF \E i \in 1..Len(d) : d[i][1] = k
  THEN [i \in 1..Len(d) |-> IF d[i][1] = k THEN <<k, v>> ELSE d[i]]
  ELSE Append(d, <<k, v>>)
DictKeys(d) == {d[i][1] : i \in 1..Len(d)}
DictGet(d, k) == (CHOOSE e \in Range(d) : e[1] = k)[2]

\* lines 1998-1999: for i in range(0, len(param) - 1), from pass i on
RECURSIVE TierLoop(_, _, _)
TierLoop(d, param, i) ==
  IF i > Len(param) - 2 THEN d
  ELSE TierLoop(DictSet(d,
                        Key(Append(SubSeq(param, 1, i + 1), param[Len(param)])),
                        Key(Append(SubSeq(param, 1, i), param[Len(param)]))),
                param, i + 1)

\* lines 1994-2000 with the assignment of line 1996 made after the loop
ExpandOne_FullKeyLast(d, param0) ==
  LET param == SplitDollar(AfterDot(param0))
  IN IF Len(param) > 1
     THEN DictSet(DictSet(TierLoop(d, param, 0), Key(param), EmptyLiteral),
                  Key(<<param[Len(param)]>>), EmptyLiteral)
     ELSE DictSet(d, Key(param), EmptyLiteral)

\* lines 1994-2000: one pass of `for param in params`
ExpandOne(d, param0) ==
  LET param == SplitDollar(AfterDot(param0))
      d1 == DictSet(d, Key(param), EmptyLiteral)
  IN IF Len(param) > 1
     THEN DictSet(TierLoop(d1, param, 0), Key(<<param[Len(param)]>>), EmptyLiteral)
     ELSE d1

RECURSIVE expand_params(_)
expand_params(params) ==
  IF params = <<>> THEN <<>>
  ELSE ExpandOne(expand_params(SubSeq(params, 1, Len(params) - 1)), params[Len(params)])

ExpandParams ==
  /\ ~exp_done
  /\ exp_done' = TRUE
  /\ exp_out' = expand_params(exp_in)
  /\ status' = 0
  /\ UNCHANGED <<snap_in, snap_out, snap_done, exp_in, lp_archive, lp_files, lp_pc>>
  /\ UNCHANGED <<main_nf, main_bak, wf_dir, pc, args, step_str, wf_mod_map, discoverd_steps,
                 new_round_steps, final_steps, iter, all_step_params, hist, load_vars>>
  /\ UNCHANGED <<main_vars, mod_vars, mount_vars, run_vars, setup_vars>>

ExpInit ==
  /\ InitAdd /\ InitLoad /\ main_nf = mk_main_wf /\ shared_cfg = "default"
  /\ IdleMain /\ IdleMod /\ IdleMount /\ IdleRun /\ IdleSetup
  /\ snap_in = <<>> /\ snap_out = <<>> /\ snap_done = FALSE
  /\ exp_in \in ParamLists /\ exp_out = <<>> /\ exp_done = FALSE
  /\ lp_archive = {} /\ lp_files = <<>> /\ lp_pc = "idle"
ExpNext == ExpandParams
ExpSpec == ExpInit /\ [][ExpNext]_vars

\* the tiers and the leaf that a parameter of the input names
PartsOf(param) == SplitDollar(AfterDot(param))
\* the key of the first i tiers of a parameter, with its leaf
TierKey(parts, i) == Key(Append(SubSeq(parts, 1, i), parts[Len(parts)]))
\* following values from a key for at most n steps ends at the empty literal
RECURSIVE EndsAtRoot(_, _, _)
EndsAtRoot(d, k, n) ==
  /\ k \in DictKeys(d)
  /\ \/ DictGet(d, k) = EmptyLiteral
     \/ n > 0 /\ EndsAtRoot(d, DictGet(d, k), n - 1)

NoFile == "absent"
\* what package_project puts in a package (lines 1310-1360); checksums
\* unless --no-checksums
Members == {"metadata", "workflow", "workflow/mounts.config", "snapshot.raft",
            "snapshot.raft.actual", "checksums"}
Packaged(archive) == archive \ {"checksums"} = Members \ {"checksums"}
FileNames ==
  {"metadata", "workflow", "workflow/mounts.config", "workflow/.mounts.config.orig",
   ".mounts.config", "rftpkgs/pkg", ".raft/auto.raft"} \cup {".raft/" \o m : m \in Members}
    \cup {".raft/checksums.orig", ".raft/snapshot.raft.orig"}
NoProject == [f \in FileNames |-> NoFile]
IsFile(files, f) == files[f] \in {"old", "new"}

\* the process dies with an uncaught exception
LpDie == lp_pc' = "died" /\ status' = 1 /\ UNCHANGED lp_files
LpFrame ==
  /\ UNCHANGED <<snap_in, snap_out, snap_done, exp_in, exp_out, exp_done, lp_archive>>
  /\ UNCHANGED <<main_nf, main_bak, wf_dir, pc, args, step_str, wf_mod_map, discoverd_steps,
                 new_round_steps, final_steps, iter, all_step_params, hist, load_vars>>
  /\ UNCHANGED <<main_vars, mod_vars, mount_vars, run_vars, setup_vars>>

\* lines 1393-1397: init_project, then mounts.config is put aside
LpInitProject ==
  /\ lp_pc = "idle"
  /\ lp_files' = [NoProject EXCEPT !["metadata"] = "dir", !["workflow"] = "dir",
                                   ![".raft/auto.raft"] = "new", ![".mounts.config"] = "new"]
  /\ lp_pc' = "copy"
  /\ UNCHANGED status
  /\ LpFrame

\* lines 1399-1420: the package is copied into rftpkgs and extracted into .raft
LpExtract ==
  /\ lp_pc = "copy"
  /\ lp_files' = [f \in FileNames |->
                    IF f = "rftpkgs/pkg" THEN "old"
                    ELSE IF \E m \in lp_archive : f = ".raft/" \o m
                    THEN (IF f \in {".raft/metadata", ".raft/workflow"} THEN "dir" ELSE "old")
                    ELSE IF f = ".raft/workflow" /\ "workflow/mounts.config" \in lp_archive
                    THEN "dir"
                    ELSE lp_files[f]]
  /\ lp_pc' = "dirs"
  /\ UNCHANGED status
  /\ LpFrame

\* lines 1422-1425: metadata and workflow are replaced by those of the package
LpReplaceDirs ==
  /\ lp_pc = "dirs"
  /\ IF lp_files[".raft/metadata"] = NoFile \/ lp_files[".raft/workflow"] = NoFile
     THEN LpDie
     ELSE /\ lp_files' = [lp_files EXCEPT !["workflow/mounts.config"] =
                                            lp_files[".raft/workflow/mounts.config"]]
          /\ lp_pc' = "mounts"
          /\ UNCHANGED status
  /\ LpFrame

\* lines 1426-1429: the manifest of the package is shelved and that of
\* init_project put back
LpSwapMounts ==
  /\ lp_pc = "mounts"
  /\ IF ~IsFile(lp_files, "workflow/mounts.config")
     THEN LpDie
     ELSE /\ lp_files' = [lp_files EXCEPT
                            !["workflow/.mounts.config.orig"] = lp_files["workflow/mounts.config"],
                            !["workflow/mounts.config"] = lp_files[".mounts.config"],
                            ![".mounts.config"] = NoFile]
          /\ lp_pc' = "checksums"
          /\ UNCHANGED status
  /\ LpFrame

\* lines 1433-1441: with a checksums file, its backup, then replace_proj_id
\* with the identifier that get_orig_prod_id reads from snapshot.raft.orig
LpChecksums ==
  /\ lp_pc = "checksums"
  /\ IF ~IsFile(lp_files, ".raft/checksums")
     THEN lp_pc' = "snapshot" /\ UNCHANGED <<lp_files, status>>
     ELSE IF ~IsFile(lp_files, ".raft/snapshot.raft.orig")
     THEN /\ lp_files' = [lp_files EXCEPT ![".raft/checksums.orig"] = lp_files[".raft/checksums"]]
          /\ lp_pc' = "died"
          /\ status' = 1
     ELSE /\ lp_files' = [lp_files EXCEPT ![".raft/checksums.orig"] = lp_files[".raft/checksums"],
                                          ![".raft/checksums"] = "new"]
          /\ lp_pc' = "snapshot"
          /\ UNCHANGED status
  /\ LpFrame

\* lines 1444-1449: snapshot.raft is backed up and rewritten for the new
\* identifier
LpSnapshot ==
  /\ lp_pc = "snapshot"
  /\ IF ~IsFile(lp_files, ".raft/snapshot.raft")
     THEN LpDie
     ELSE /\ lp_files' = [lp_files EXCEPT ![".raft/snapshot.raft.orig"] = lp_files[".raft/snapshot.raft"],
                                          ![".raft/snapshot.raft"] = "new"]
          /\ lp_pc' = "done"
          /\ status' = 0
  /\ LpFrame

LpInit ==
  /\ InitAdd /\ InitLoad /\ main_nf = mk_main_wf /\ shared_cfg = "default"
  /\ IdleMain /\ IdleMod /\ IdleMount /\ IdleRun /\ IdleSetup
  /\ snap_in = <<>> /\ snap_out = <<>> /\ snap_done = FALSE
  /\ exp_in = <<>> /\ exp_out = <<>> /\ exp_done = FALSE
  /\ lp_archive \in SUBSET Members /\ lp_files = NoProject /\ lp_pc = "idle"
LpNext ==
  \/ LpInitProject
  \/ LpExtract
  \/ LpReplaceDirs
  \/ LpSwapMounts
  \/ LpChecksums
  \/ LpSnapshot
LpSpec == LpInit /\ [][LpNext]_vars

\* C29: load-project of a package that package-project made, with a
\* checksums manifest or without, never dies on a file that is not there yet,
\* and when it ends checksums (if packaged) and snapshot.raft name the new
\* project.
C29_ReadsWhatExists ==
  Packaged(lp_archive) =>
    /\ lp_pc # "died"
    /\ lp_pc = "done" =>
         /\ lp_files[".raft/snapshot.raft"] = "new"
         /\ "checksums" \in lp_archive => lp_files[".raft/checksums"] = "new"

====
